---- MODULE Spec2Model ----
(***************************************************************************)
(* Batch ETL pipeline: the Warehouse Loader (src/src/load.py), the         *)
(* Transformer (src/src/transform.py) and the orchestrator                 *)
(* (src/src/etl_pipeline.py).                                              *)
(*                                                                         *)
(* load_data_warehouse is modelled statement by statement: every database  *)
(* round trip of the function is one step of a loader process, so that     *)
(* faults can strike between any two statements and two loaders can be     *)
(* interleaved.  The warehouse is a PostgreSQL database under READ         *)
(* COMMITTED: a statement sees the committed rows plus the rows its own    *)
(* transaction wrote; INSERT ... ON CONFLICT DO NOTHING waits for an       *)
(* uncommitted row with the same unique key.                               *)
(*                                                                         *)
(* The transformer works on frames of records whose cells are null, text,  *)
(* number or timestamp; texts are sequences of words and whitespace, so    *)
(* that trimming, whitespace collapsing and title-casing act on them.      *)
(* run_etl_pipeline is modelled phase by phase, with the loader's steps    *)
(* as its Load phase.                                                      *)
(***************************************************************************)
EXTENDS Integers, Sequences, FiniteSets, TLC

\* ------------------------------------------------------------------------
\* Bounds of the model
\* ------------------------------------------------------------------------
MaxCalls == 2
MaxFacts == 2
MaxRaw == 2
MaxTokens == 5
MaxDates == 3
LastYear == 2026

\* ------------------------------------------------------------------------
\* Tables and columns
\* ------------------------------------------------------------------------
\* Variant: the user table is loaded first.
DimOrderUserFirst == <<"dim_user", "dim_date", "dim_category", "dim_merchant", "dim_payment_method">>

\* The order in which load_data_warehouse loads the dimension tables.
DimOrder == <<"dim_date", "dim_category", "dim_merchant", "dim_payment_method", "dim_user">>

DimNames == {DimOrder[i] : i \in 1..Len(DimOrder)}

\* The order in which get_all_dimension_mappings queries the tables.
MappingOrder == <<"dim_category", "dim_merchant", "dim_payment_method", "dim_user", "dim_date">>

\* Tables whose surrogate key is assigned by the warehouse (dim_date uses
\* date_key, which the loader supplies, as its key).
SerialDims == DimNames \ {"dim_date"}

\* The column of a fact record that holds the natural key of dimension d.
NaturalKey(rec, d) ==
    CASE d = "dim_date" -> rec.date_key
      [] d = "dim_category" -> rec.category
      [] d = "dim_merchant" -> rec.merchant
      [] d = "dim_payment_method" -> rec.payment_method
      [] d = "dim_user" -> rec.user_id

\* ------------------------------------------------------------------------
\* Cells of a frame
\* ------------------------------------------------------------------------
\* A cell of a frame: null (NaN / None / NaT), a text, a number or a
\* timestamp.  Texts are sequences of tokens, numbers are integers in the
\* unit of their column (amounts in thousandths, user ids in tenths),
\* timestamps are YYYYMMDDHH.
NullCell == [k |-> "null", s |-> << >>, n |-> 0]

Text(tokens) == [k |-> "str", s |-> tokens, n |-> 0]

Num(n) == [k |-> "num", s |-> << >>, n |-> n]

Stamp(n) == [k |-> "date", s |-> << >>, n |-> n]

\* A user_id column that stayed float64 (values in tenths).
Float(n) == [k |-> "float", s |-> << >>, n |-> n]

\* pd.isna(x)
IsNull(cell) == cell.k = "null"

\* ------------------------------------------------------------------------
\* Input batches (transformed_data)
\* ------------------------------------------------------------------------
FactRecord(t, dk, c, m, p, u, a) ==
    [transaction_id |-> t, date_key |-> dk, category |-> c, merchant |-> m,
     payment_method |-> p, user_id |-> u, amount |-> a]

\* Candidate fact records; amounts are in cents.  The third record re-delivers
\* transaction t1 with another amount and other dimension values.
FactPool ==
    << FactRecord("t1", 20230617, "Dining", "Acme", "Cash", Num(1), 1000),
       FactRecord("t2", 20230618, "Groceries", "Acme", "Cash", Num(2), 2050),
       FactRecord("t1", 20230618, "Groceries", "Zed", "Credit Card", Num(2), 2500) >>

RECURSIVE Increasing(_)
Increasing(s) ==
    IF Len(s) <= 1 THEN TRUE ELSE s[1] < s[2] /\ Increasing(Tail(s))

\* fact_data frames: up to MaxFacts pool records, in pool order.
FactFrames ==
    LET idx == UNION {[1..n -> 1..Len(FactPool)] : n \in 0..MaxFacts}
    IN  {[i \in 1..Len(s) |-> FactPool[s[i]]] : s \in {x \in idx : Increasing(x)}}

\* fact_data frames in any order (used for interleaved loaders).
FactFramesAnyOrder ==
    LET idx == UNION {[1..n -> 1..Len(FactPool)] : n \in 0..MaxFacts}
    IN  {[i \in 1..Len(s) |-> FactPool[s[i]]] :
            s \in {x \in idx : \A i, j \in 1..Len(x) : i # j => x[i] # x[j]}}

RECURSIVE Distinct(_, _)
\* The distinct values of a column, in order of first appearance.
Distinct(s, seen) ==
    IF s = << >> THEN << >>
    ELSE IF Head(s) \in seen THEN Distinct(Tail(s), seen)
         ELSE <<Head(s)>> \o Distinct(Tail(s), seen \cup {Head(s)})

\* A dimension frame holding one row per distinct natural key of the facts.
DimFrame(facts, d) ==
    Distinct([i \in 1..Len(facts) |-> NaturalKey(facts[i], d)], {})

\* transformed_data: the fact frame and the five dimension frames; `omit`
\* names a dimension frame that is delivered empty ("none": all are full).
Batch(facts, omit) ==
    [fact_data |-> facts,
     dims |-> [d \in DimNames |-> IF d = omit THEN << >> ELSE DimFrame(facts, d)]]

\* The batches of successive calls: every frame with its dimension frames in
\* full, and the first pool record with one dimension frame delivered empty.
Batches ==
    {Batch(f, "none") : f \in FactFrames}
    \cup {Batch(<<FactPool[1]>>, d) : d \in DimNames}

\* The batches of interleaved loaders: they overlap in transaction_ids and
\* natural keys and differ in order.
ConcBatches == {Batch(f, "none") : f \in {x \in FactFramesAnyOrder : Len(x) >= 1}}

TransactionIds(facts) == {facts[i].transaction_id : i \in 1..Len(facts)}

\* ------------------------------------------------------------------------
\* Warehouse contents
\* ------------------------------------------------------------------------
\* A set of rows per table.  Dimension rows are [nk, sk, xmin] (natural key,
\* surrogate key, inserting transaction); fact rows carry transaction_id, the
\* five keys, the amount and xmin.  xmin tells apart two rows that two
\* transactions inserted with the same column values.  The transaction_key
\* of a fact row is left out: no statement of the loader reads or writes it.
EmptyTables ==
    [dims |-> [d \in DimNames |-> {}], facts |-> {}]

\* Rows of both arguments (committed rows plus a transaction's own rows).
Merge(a, b) ==
    [dims |-> [d \in DimNames |-> a.dims[d] \cup b.dims[d]],
     facts |-> a.facts \cup b.facts]

DimKeys(tables, d) == {r.nk : r \in tables.dims[d]}

FactIds(tables) == {r.transaction_id : r \in tables.facts}

\* The rows a statement of a transaction sees: committed rows and own rows.
Visible(committed, own) == Merge(committed, own)

\* ------------------------------------------------------------------------
\* State
\* ------------------------------------------------------------------------
VARIABLES
    warehouse,   \* committed rows of the six tables
    seq,         \* last value handed out by the key sequence of each table
    loader,      \* per loader process: the locals of load_data_warehouse
    calls,       \* number of load_data_warehouse calls started so far
    prev,        \* summary of the call that returned before the current one
    shadow,      \* the warehouse had the failed calls never been made
    etl          \* the transform and orchestrator side: clock, run in progress

vars == <<warehouse, seq, loader, calls, prev, shadow, etl>>

Loaders == {"A", "B"}

ZeroStats ==
    [dimensions_inserted |-> [d \in DimNames |-> 0],
     facts_inserted |-> 0, facts_skipped |-> 0]

NoBatch == Batch(<< >>, "none")

\* The locals of a loader that is not inside a call.
IdleLoader ==
    [pc |-> "idle", batch |-> NoBatch, conn |-> "none", tx |-> EmptyTables,
     dim |-> 0, idx |-> 0, count_before |-> 0, stats |-> ZeroStats,
     mappings |-> [d \in DimNames |-> << >>], enriched |-> << >>,
     new_df |-> << >>, exc |-> "none", failed_at |-> "none", txn |-> "none",
     result |-> "none", pre |-> EmptyTables]

NoPrev == [batch |-> NoBatch, ok |-> FALSE, stats |-> ZeroStats, fresh |-> FALSE]

\* pipeline_state of run_etl_pipeline as it is initialised.
InitialPipelineState ==
    [extract |-> 0, transform |-> 0, load |-> 0, facts_skipped |-> 0,
     dimensions_inserted |-> [d \in {} |-> 0]]

\* The error of a result: the failing phase and the exception it wraps.
NoError == [phase |-> "none", cause |-> "none"]

NoResult == [status |-> "none", error |-> NoError, counts |-> InitialPipelineState]

\* The previous run of the pipeline, as far as later runs are compared with it.
NoLast == [file |-> 0, dry_run |-> FALSE, result |-> NoResult]

\* No call of a standardizer has been made.
NoStandardizerCall ==
    [pc |-> "idle", fn |-> "none", arg |-> [k |-> "null", s |-> << >>, n |-> 0],
     out |-> [k |-> "null", s |-> << >>, n |-> 0],
     again |-> [k |-> "null", s |-> << >>, n |-> 0]]

\* No call of derive_date_attributes on its own has been made.
NoDateCall == [pc |-> "idle", arg |-> << >>, out |-> << >>]

\* No transform call and no pipeline run in progress; the clock stands at the
\* instant the process imported src.transform.
NoRun ==
    [pc |-> "idle", clock |-> 1, raw |-> << >>, none |-> FALSE, tz |-> "naive",
     started |-> 0, df_clean |-> << >>, df_valid |-> << >>, issues |-> << >>,
     transformed |-> NoBatch, exc |-> "none",
     phase |-> "none", file |-> 0, dry_run |-> FALSE, ran |-> {},
     state |-> InitialPipelineState, error |-> NoError, result |-> NoResult,
     pre |-> EmptyTables, last |-> NoLast, std |-> NoStandardizerCall,
     dates |-> NoDateCall]

Init ==
    /\ warehouse = EmptyTables
    /\ seq = [d \in SerialDims |-> 0]
    /\ loader = [l \in Loaders |-> IdleLoader]
    /\ calls = 0
    /\ prev = NoPrev
    /\ shadow = [tables |-> EmptyTables, seq |-> [d \in SerialDims |-> 0]]
    /\ etl = NoRun

\* The exception kinds of load.py that are declared for the caller.
TypedErrors == {"DatabaseConnectionError", "DimensionLoadError", "FactLoadError", "ValueError"}

\* ------------------------------------------------------------------------
\* Warehouse statements
\* ------------------------------------------------------------------------
\* The key a new row of table d gets: the next value of the table's sequence,
\* or the supplied date_key for dim_date.
AssignedKey(sq, d, nk) == IF d \in SerialDims THEN sq[d] + 1 ELSE nk

\* An INSERT draws the next sequence value before the conflict check, so the
\* value is used up whether or not a row is inserted, and a rollback does not
\* give it back.
Advance(sq, d) == IF d \in SerialDims THEN [sq EXCEPT ![d] = @ + 1] ELSE sq

\* The value column `natural key` of table d holds for the Python value nk.
\* dim_user.user_id is an integer column: a float is cast on assignment and
\* rounded to the nearest integer (1.5 is stored as 2, 2.0 as 2).  Texts and
\* integers are stored as they are.
ColumnValue(d, nk) ==
    IF d = "dim_user"
    THEN IF nk.k = "float" THEN Num((nk.n + 5) \div 10) ELSE nk
    ELSE nk

\* The key of a dict built from column values that a frame value is looked
\* up under: a whole float equals, and hashes as, the integer (2.0 finds 2);
\* a float with a fraction equals no integer.
DictKey(d, nk) ==
    IF d = "dim_user"
    THEN IF nk.k = "float" /\ nk.n % 10 = 0 THEN Num(nk.n \div 10) ELSE nk
    ELSE nk

\* INSERT INTO d (natural key) VALUES (nk) ON CONFLICT (natural key) DO NOTHING,
\* run by a transaction that sees `seen` and has written `own`.
InsertDimension(seen, own, sq, d, nk, who) ==
    LET value == ColumnValue(d, nk)
    IN  IF value \in DimKeys(seen, d)
        THEN own
        ELSE [own EXCEPT !.dims[d] =
                 @ \cup {[nk |-> value, sk |-> AssignedKey(sq, d, value), xmin |-> who]}]

\* INSERT INTO fact_transactions ... ON CONFLICT (transaction_id) DO NOTHING.
FactRow(row, who) ==
    [transaction_id |-> row.transaction_id, date_key |-> row.date_key,
     category_key |-> row.category_key, merchant_key |-> row.merchant_key,
     payment_method_key |-> row.payment_method_key, user_key |-> row.user_key,
     amount |-> row.amount, xmin |-> who]

InsertFact(seen, own, row, who) ==
    IF row.transaction_id \in FactIds(seen)
    THEN own
    ELSE [own EXCEPT !.facts = @ \cup {FactRow(row, who)}]

\* SELECT natural key, surrogate key FROM d, as the dict the loader builds.
KeyMapping(seen, d) ==
    [nk \in DimKeys(seen, d) |-> (CHOOSE r \in seen.dims[d] : r.nk = nk).sk]

\* An insert waits while another open transaction holds an uncommitted row
\* with the same unique key.
DimInsertWaits(l, d, nk) ==
    /\ ColumnValue(d, nk) \notin DimKeys(Visible(warehouse, loader[l].tx), d)
    /\ \E o \in Loaders \ {l} : ColumnValue(d, nk) \in DimKeys(loader[o].tx, d)

\* Variant: an insert never waits for an uncommitted row with the same
\* transaction_id (no unique index on transaction_id).
FactInsertNeverWaits(l, tid) == FALSE

FactInsertWaits(l, tid) ==
    /\ tid \notin FactIds(Visible(warehouse, loader[l].tx))
    /\ \E o \in Loaders \ {l} : tid \in FactIds(loader[o].tx)

\* ------------------------------------------------------------------------
\* enrich_fact_with_keys
\* ------------------------------------------------------------------------
\* The records of the frame whose natural key for d is not in the mapping.
Unmapped(facts, mappings, d) ==
    {i \in 1..Len(facts) : DictKey(d, NaturalKey(facts[i], d)) \notin DOMAIN mappings[d]}

\* Variant: date_key is not verified against the date mapping.
EnrichRaisesSkipsDate(facts, mappings) ==
    \E d \in SerialDims : Unmapped(facts, mappings, d) # {}

EnrichRaises(facts, mappings) ==
    \E d \in DimNames : Unmapped(facts, mappings, d) # {}

EnrichedRow(rec, mappings) ==
    [transaction_id |-> rec.transaction_id,
     date_key |-> rec.date_key,
     category_key |-> mappings["dim_category"][DictKey("dim_category", rec.category)],
     merchant_key |-> mappings["dim_merchant"][DictKey("dim_merchant", rec.merchant)],
     payment_method_key |-> mappings["dim_payment_method"][DictKey("dim_payment_method", rec.payment_method)],
     user_key |-> mappings["dim_user"][DictKey("dim_user", rec.user_id)],
     amount |-> rec.amount]

EnrichFactWithKeys(facts, mappings) ==
    [i \in 1..Len(facts) |-> EnrichedRow(facts[i], mappings)]

\* ------------------------------------------------------------------------
\* load_data_warehouse, step by step
\* ------------------------------------------------------------------------
Summary(ld) ==
    IF ld.result = "ok"
    THEN [batch |-> ld.batch, ok |-> TRUE, stats |-> ld.stats,
          fresh |-> TransactionIds(ld.batch.fact_data) \cap FactIds(ld.pre) = {}]
    ELSE NoPrev

\* A call with all six required keys present: the try block is entered.
Call(l, b) ==
    /\ loader[l].pc \in {"idle", "done"}
    /\ calls < MaxCalls
    /\ loader' = [loader EXCEPT ![l] =
                    [IdleLoader EXCEPT !.pc = "connect", !.batch = b, !.pre = warehouse]]
    /\ calls' = calls + 1
    /\ prev' = IF loader[l].pc = "done" THEN Summary(loader[l]) ELSE prev
    /\ UNCHANGED <<warehouse, seq, shadow, etl>>

\* A call whose transformed_data lacks a required key: ValueError is raised
\* before the try block, no connection is opened.
CallMissingKeys(l) ==
    /\ loader[l].pc \in {"idle", "done"}
    /\ calls < MaxCalls
    /\ loader' = [loader EXCEPT ![l] =
                    [IdleLoader EXCEPT !.pc = "done", !.result = "ValueError", !.pre = warehouse]]
    /\ calls' = calls + 1
    /\ prev' = IF loader[l].pc = "done" THEN Summary(loader[l]) ELSE prev
    /\ UNCHANGED <<warehouse, seq, shadow, etl>>

\* conn = get_db_connection()
GetDbConnection(l) ==
    /\ loader[l].pc = "connect"
    /\ loader' = [loader EXCEPT ![l].conn = "open", ![l].pc = "autocommit"]
    /\ UNCHANGED <<warehouse, seq, calls, prev, shadow, etl>>

\* conn.autocommit = False: the statements that follow form one transaction.
SetAutocommit(l) ==
    /\ loader[l].pc = "autocommit"
    /\ loader' = [loader EXCEPT ![l].txn = "active", ![l].pc = "load_dims",
                                ![l].dim = 1, ![l].idx = 0]
    /\ UNCHANGED <<warehouse, seq, calls, prev, shadow, etl>>

\* Variant: the count after the insert is reported as the number inserted.
InsertedIsCountAfter(count_before, count_after) == count_after

\* inserted = count_after - count_before
Inserted(count_before, count_after) == count_after - count_before

\* After the dimension at position i of DimOrder: the next one, or the mappings.
AfterDimension(ld, i) ==
    IF i < Len(DimOrder)
    THEN [ld EXCEPT !.dim = i + 1, !.idx = 0]
    ELSE [ld EXCEPT !.pc = "mappings", !.dim = 1, !.idx = 0]

\* One statement of load_dim_date / load_dimension for table d: the first
\* COUNT(*), the insert of one row of the frame, or the second COUNT(*).
DimensionStep(l, d) ==
    LET ld == loader[l]
        frame == ld.batch.dims[d]
        seen == Visible(warehouse, ld.tx)
    IN  IF ld.idx = 0
        THEN /\ loader' = [loader EXCEPT ![l] =
                    IF frame = << >>
                    THEN AfterDimension([ld EXCEPT !.stats.dimensions_inserted[d] = 0], ld.dim)
                    ELSE [ld EXCEPT !.count_before = Cardinality(seen.dims[d]), !.idx = 1]]
             /\ UNCHANGED seq
        ELSE IF ld.idx <= Len(frame)
        THEN /\ ~DimInsertWaits(l, d, frame[ld.idx])
             /\ loader' = [loader EXCEPT
                    ![l].tx = InsertDimension(seen, ld.tx, seq, d, frame[ld.idx], l),
                    ![l].idx = ld.idx + 1]
             /\ seq' = Advance(seq, d)
        ELSE /\ loader' = [loader EXCEPT ![l] =
                    AfterDimension(
                        [ld EXCEPT !.stats.dimensions_inserted[d] =
                                      Inserted(ld.count_before, Cardinality(seen.dims[d])),
                                   !.count_before = 0],
                        ld.dim)]
             /\ UNCHANGED seq

LoadDimDate(l) ==
    /\ loader[l].pc = "load_dims"
    /\ DimOrder[loader[l].dim] = "dim_date"
    /\ DimensionStep(l, "dim_date")
    /\ UNCHANGED <<warehouse, calls, prev, shadow, etl>>

LoadDimension(l) ==
    /\ loader[l].pc = "load_dims"
    /\ DimOrder[loader[l].dim] # "dim_date"
    /\ DimensionStep(l, DimOrder[loader[l].dim])
    /\ UNCHANGED <<warehouse, calls, prev, shadow, etl>>

\* get_all_dimension_mappings: one SELECT per table, in MappingOrder.
GetAllDimensionMappings(l) ==
    LET ld == loader[l]
        d == MappingOrder[ld.dim]
    IN  /\ ld.pc = "mappings"
        /\ loader' = [loader EXCEPT ![l] =
              [ld EXCEPT !.mappings[d] = KeyMapping(Visible(warehouse, ld.tx), d),
                         !.dim = IF ld.dim < Len(MappingOrder) THEN ld.dim + 1 ELSE 0,
                         !.pc = IF ld.dim < Len(MappingOrder) THEN "mappings" ELSE "enrich"]]
        /\ UNCHANGED <<warehouse, seq, calls, prev, shadow, etl>>

\* Variant: records with an unmapped natural key are dropped and the load
\* goes on with the rest.
EnrichFactsDropsUnmapped(l) ==
    LET ld == loader[l]
        Mapped(rec) == \A d \in DimNames :
                          DictKey(d, NaturalKey(rec, d)) \in DOMAIN ld.mappings[d]
    IN  /\ ld.pc = "enrich"
        /\ loader' = [loader EXCEPT ![l] =
              [ld EXCEPT !.enriched = EnrichFactWithKeys(SelectSeq(ld.batch.fact_data, Mapped),
                                                         ld.mappings),
                         !.pc = "fact_check"]]
        /\ UNCHANGED <<warehouse, seq, calls, prev, shadow, etl>>

\* enriched_fact_df = enrich_fact_with_keys(fact_data, dimension_mappings)
EnrichFacts(l) ==
    LET ld == loader[l]
    IN  /\ ld.pc = "enrich"
        /\ loader' = [loader EXCEPT ![l] =
              IF EnrichRaises(ld.batch.fact_data, ld.mappings)
              THEN [ld EXCEPT !.exc = "FactLoadError", !.failed_at = "enrich", !.pc = "except"]
              ELSE [ld EXCEPT !.enriched = EnrichFactWithKeys(ld.batch.fact_data, ld.mappings),
                              !.pc = "fact_check"]]
        /\ UNCHANGED <<warehouse, seq, calls, prev, shadow, etl>>

\* Variant: the existence check reports every transaction_id of the frame.
CheckExistingFindsAll(seen, rows) == {rows[i].transaction_id : i \in 1..Len(rows)}

\* Variant: the existence check finds nothing.
CheckExistingFindsNone(seen, rows) == {}

\* check_existing_transactions: the transaction_ids of the frame that the
\* fact table already holds.
CheckExistingTransactions(seen, rows) ==
    {rows[i].transaction_id : i \in 1..Len(rows)} \cap FactIds(seen)

\* load_fact_table up to the filter: an empty frame returns (0, 0); otherwise
\* the existing ids are fetched and their records are dropped and counted.
LoadFactCheck(l) ==
    LET ld == loader[l]
        existing_ids == CheckExistingTransactions(Visible(warehouse, ld.tx), ld.enriched)
        IsNew(r) == r.transaction_id \notin existing_ids
        new_transactions_df == SelectSeq(ld.enriched, IsNew)
        skipped_count == Len(ld.enriched) - Len(new_transactions_df)
    IN  /\ ld.pc = "fact_check"
        /\ loader' = [loader EXCEPT ![l] =
              IF ld.enriched = << >>
              THEN [ld EXCEPT !.stats.facts_inserted = 0, !.stats.facts_skipped = 0,
                              !.pc = "commit"]
              ELSE IF new_transactions_df = << >>
              THEN [ld EXCEPT !.stats.facts_inserted = 0,
                              !.stats.facts_skipped = skipped_count, !.pc = "commit"]
              ELSE [ld EXCEPT !.new_df = new_transactions_df,
                              !.stats.facts_skipped = skipped_count,
                              !.pc = "fact_insert", !.idx = 0]]
        /\ UNCHANGED <<warehouse, seq, calls, prev, shadow, etl>>

\* load_fact_table from the first COUNT(*) on: one statement per step.
LoadFactInsert(l) ==
    LET ld == loader[l]
        seen == Visible(warehouse, ld.tx)
    IN  /\ ld.pc = "fact_insert"
        /\ IF ld.idx = 0
           THEN loader' = [loader EXCEPT ![l].count_before = Cardinality(seen.facts),
                                         ![l].idx = 1]
           ELSE IF ld.idx <= Len(ld.new_df)
           THEN /\ ~FactInsertWaits(l, ld.new_df[ld.idx].transaction_id)
                /\ loader' = [loader EXCEPT
                       ![l].tx = InsertFact(seen, ld.tx, ld.new_df[ld.idx], l),
                       ![l].idx = ld.idx + 1]
           ELSE loader' = [loader EXCEPT
                       ![l].stats.facts_inserted = Inserted(ld.count_before, Cardinality(seen.facts)),
                       ![l].count_before = 0, ![l].idx = 0, ![l].pc = "commit"]
        /\ UNCHANGED <<warehouse, seq, calls, prev, shadow, etl>>

\* ------------------------------------------------------------------------
\* The warehouse after one whole successful load, computed in one go
\* ------------------------------------------------------------------------
RECURSIVE InsertFrame(_, _, _, _)
InsertFrame(tables, sq, d, frame) ==
    IF frame = << >>
    THEN [tables |-> tables, seq |-> sq]
    ELSE InsertFrame(Merge(tables, InsertDimension(tables, EmptyTables, sq, d, Head(frame), "A")),
                     Advance(sq, d), d, Tail(frame))

RECURSIVE InsertFrames(_, _, _)
InsertFrames(st, b, i) ==
    IF i > Len(DimOrder)
    THEN st
    ELSE InsertFrames(InsertFrame(st.tables, st.seq, DimOrder[i], b.dims[DimOrder[i]]), b, i + 1)

RECURSIVE InsertFacts(_, _)
InsertFacts(tables, rows) ==
    IF rows = << >>
    THEN tables
    ELSE InsertFacts(Merge(tables, InsertFact(tables, EmptyTables, Head(rows), "A")), Tail(rows))

ApplyLoad(st, b) ==
    LET s1 == InsertFrames(st, b, 1)
        maps == [d \in DimNames |-> KeyMapping(s1.tables, d)]
    IN  IF EnrichRaises(b.fact_data, maps)
        THEN st
        ELSE [tables |-> InsertFacts(s1.tables, EnrichFactWithKeys(b.fact_data, maps)),
              seq |-> s1.seq]

\* conn.commit(): the rows of the transaction become committed rows.
Commit(l) ==
    /\ loader[l].pc = "commit"
    /\ warehouse' = Merge(warehouse, loader[l].tx)
    /\ loader' = [loader EXCEPT ![l].tx = EmptyTables, ![l].txn = "committed",
                                ![l].pc = "finally"]
    /\ shadow' = ApplyLoad(shadow, loader[l].batch)
    /\ UNCHANGED <<seq, calls, prev, etl>>

\* ------------------------------------------------------------------------
\* Failures
\* ------------------------------------------------------------------------
\* The steps that talk to the warehouse, and what a failure of the step
\* raises into the try block of load_data_warehouse.
FaultPoints == {"connect", "autocommit", "load_dims", "mappings", "fact_check",
                "fact_insert", "commit"}

\* Variant: a failed mapping query raises FactLoadError.
RaisedAtMappingIsFactError(p) ==
    CASE p = "connect" -> "DatabaseConnectionError"
      [] p = "autocommit" -> "psycopg2.Error"
      [] p = "load_dims" -> "DimensionLoadError"
      [] p \in {"mappings", "fact_check", "fact_insert"} -> "FactLoadError"
      [] p = "commit" -> "psycopg2.Error"

RaisedAt(p) ==
    CASE p = "connect" -> "DatabaseConnectionError"
      [] p = "autocommit" -> "psycopg2.Error"
      [] p \in {"load_dims", "mappings"} -> "DimensionLoadError"
      [] p \in {"fact_check", "fact_insert"} -> "FactLoadError"
      [] p = "commit" -> "psycopg2.Error"

\* The current warehouse step fails.  With `lost` the connection is gone as
\* well: the client sees conn.closed and the server aborts the transaction.
Fault(l, lost) ==
    LET ld == loader[l]
    IN  /\ ld.pc \in FaultPoints
        /\ lost => ld.conn = "open"
        /\ loader' = [loader EXCEPT ![l] =
              [ld EXCEPT !.exc = RaisedAt(ld.pc),
                         !.failed_at = ld.pc,
                         !.pc = "except",
                         !.conn = IF lost THEN "closed" ELSE ld.conn,
                         !.tx = IF lost THEN EmptyTables ELSE ld.tx,
                         !.txn = IF lost /\ ld.txn = "active" THEN "aborted" ELSE ld.txn]]
        /\ UNCHANGED <<warehouse, seq, calls, prev, shadow, etl>>

\* What the except clauses re-raise: a declared error as it is, anything
\* else wrapped in a plain Exception.
Reraised(e) == IF e \in TypedErrors THEN e ELSE "Exception"

\* Variant: the except clauses commit the open transaction instead of
\* rolling it back.
HandlerCommits(l, rollback_ok) ==
    LET ld == loader[l]
    IN  /\ ld.pc = "except"
        /\ loader' = [loader EXCEPT ![l] =
              [ld EXCEPT !.tx = EmptyTables,
                         !.txn = IF ld.conn = "open" /\ ld.txn = "active" THEN "committed" ELSE ld.txn,
                         !.exc = Reraised(ld.exc), !.pc = "finally"]]
        /\ warehouse' = IF ld.conn = "open" THEN Merge(warehouse, ld.tx) ELSE warehouse
        /\ UNCHANGED <<seq, calls, prev, shadow, etl>>

\* The except clauses: roll back if the connection is open, then re-raise.
\* A rollback that raises replaces the exception in flight.
Handler(l, rollback_ok) ==
    LET ld == loader[l]
    IN  /\ ld.pc = "except"
        /\ loader' = [loader EXCEPT ![l] =
              IF ld.conn = "open"
              THEN IF rollback_ok
                   THEN [ld EXCEPT !.tx = EmptyTables,
                                   !.txn = IF ld.txn = "active" THEN "aborted" ELSE ld.txn,
                                   !.exc = Reraised(ld.exc), !.pc = "finally"]
                   ELSE [ld EXCEPT !.exc = "psycopg2.Error", !.pc = "finally"]
              ELSE [ld EXCEPT !.exc = Reraised(ld.exc), !.pc = "finally"]]
        /\ UNCHANGED <<warehouse, seq, calls, prev, shadow, etl>>

\* Variant: the finally clause does not close the connection.
FinallyKeepsOpen(l) ==
    LET ld == loader[l]
    IN  /\ ld.pc = "finally"
        /\ loader' = [loader EXCEPT ![l] =
              [IdleLoader EXCEPT
                  !.pc = "done", !.batch = ld.batch, !.pre = ld.pre,
                  !.new_df = ld.new_df, !.failed_at = ld.failed_at,
                  !.conn = ld.conn, !.txn = ld.txn,
                  !.result = IF ld.exc = "none" THEN "ok" ELSE ld.exc,
                  !.stats = IF ld.exc = "none" THEN ld.stats ELSE ZeroStats]]
        /\ UNCHANGED <<warehouse, seq, calls, prev, shadow, etl>>

\* The finally clause, then the return or the raise to the caller.  Closing
\* a connection ends its open transaction without committing it.
Finally(l) ==
    LET ld == loader[l]
    IN  /\ ld.pc = "finally"
        /\ loader' = [loader EXCEPT ![l] =
              [IdleLoader EXCEPT
                  !.pc = "done",
                  !.batch = ld.batch,
                  !.pre = ld.pre,
                  !.new_df = ld.new_df,
                  !.failed_at = ld.failed_at,
                  !.conn = IF ld.conn = "open" THEN "closed" ELSE ld.conn,
                  !.txn = IF ld.txn = "active" THEN "aborted" ELSE ld.txn,
                  !.result = IF ld.exc = "none" THEN "ok" ELSE ld.exc,
                  !.stats = IF ld.exc = "none" THEN ld.stats ELSE ZeroStats]]
        /\ UNCHANGED <<warehouse, seq, calls, prev, shadow, etl>>

\* ------------------------------------------------------------------------
\* database_connection, the context manager
\* ------------------------------------------------------------------------
\* with database_connection() as conn: the generator starts.
OpenSession(l) ==
    /\ loader[l].pc \in {"idle", "done"}
    /\ calls < MaxCalls
    /\ loader' = [loader EXCEPT ![l] =
                    [IdleLoader EXCEPT !.pc = "cm_connect", !.pre = warehouse]]
    /\ calls' = calls + 1
    /\ prev' = IF loader[l].pc = "done" THEN Summary(loader[l]) ELSE prev
    /\ UNCHANGED <<warehouse, seq, shadow, etl>>

\* conn = get_db_connection() inside the try; a failure raises
\* DatabaseConnectionError with conn still None.
SessionConnect(l, ok) ==
    LET ld == loader[l]
    IN  /\ ld.pc = "cm_connect"
        /\ loader' = [loader EXCEPT ![l] =
              IF ok
              THEN [ld EXCEPT !.conn = "open", !.txn = "active", !.pc = "cm_body"]
              ELSE [ld EXCEPT !.exc = "DatabaseConnectionError", !.failed_at = "connect",
                              !.pc = "cm_except"]]
        /\ UNCHANGED <<warehouse, seq, calls, prev, shadow, etl>>

\* The body of the with statement (queries that read the warehouse): it
\* returns, raises, or raises because the connection is gone.
SessionBody(l, outcome) ==
    LET ld == loader[l]
    IN  /\ ld.pc = "cm_body"
        /\ loader' = [loader EXCEPT ![l] =
              CASE outcome = "returns" -> [ld EXCEPT !.pc = "cm_finally"]
                [] outcome = "raises" ->
                     [ld EXCEPT !.exc = "BodyError", !.failed_at = "body", !.pc = "cm_except"]
                [] outcome = "lost" ->
                     [ld EXCEPT !.exc = "psycopg2.Error", !.failed_at = "body",
                                !.conn = "closed", !.txn = "aborted", !.pc = "cm_except"]]
        /\ UNCHANGED <<warehouse, seq, calls, prev, shadow, etl>>

\* except Exception: roll back if the connection is open, re-raise as it is.
SessionExcept(l, rollback_ok) ==
    LET ld == loader[l]
    IN  /\ ld.pc = "cm_except"
        /\ loader' = [loader EXCEPT ![l] =
              IF ld.conn = "open"
              THEN IF rollback_ok
                   THEN [ld EXCEPT !.tx = EmptyTables, !.txn = "aborted", !.pc = "cm_finally"]
                   ELSE [ld EXCEPT !.exc = "psycopg2.Error", !.pc = "cm_finally"]
              ELSE [ld EXCEPT !.pc = "cm_finally"]]
        /\ UNCHANGED <<warehouse, seq, calls, prev, shadow, etl>>

\* finally: close the connection if it is open.
SessionFinally(l) ==
    LET ld == loader[l]
    IN  /\ ld.pc = "cm_finally"
        /\ loader' = [loader EXCEPT ![l] =
              [IdleLoader EXCEPT
                  !.pc = "done",
                  !.pre = ld.pre,
                  !.failed_at = ld.failed_at,
                  !.conn = IF ld.conn = "open" THEN "closed" ELSE ld.conn,
                  !.txn = IF ld.txn = "active" THEN "aborted" ELSE ld.txn,
                  !.result = IF ld.exc = "none" THEN "session_ok" ELSE ld.exc]]
        /\ UNCHANGED <<warehouse, seq, calls, prev, shadow, etl>>

Session(l) ==
    \/ \E ok \in BOOLEAN : SessionConnect(l, ok)
    \/ \E outcome \in {"returns", "raises", "lost"} : SessionBody(l, outcome)
    \/ \E rollback_ok \in BOOLEAN : SessionExcept(l, rollback_ok)
    \/ SessionFinally(l)

\* ------------------------------------------------------------------------
\* Specifications
\* ------------------------------------------------------------------------
\* One step of a call; `losses` and `rollbacks` are the outcomes allowed for
\* a failing step (connection lost or not) and for the handler's rollback.
Step(l, losses, rollbacks) ==
    \/ GetDbConnection(l)
    \/ SetAutocommit(l)
    \/ LoadDimDate(l)
    \/ LoadDimension(l)
    \/ GetAllDimensionMappings(l)
    \/ EnrichFacts(l)
    \/ LoadFactCheck(l)
    \/ LoadFactInsert(l)
    \/ Commit(l)
    \/ \E lost \in losses : Fault(l, lost)
    \/ \E rollback_ok \in rollbacks : Handler(l, rollback_ok)
    \/ Finally(l)

\* One loader, called again and again.
Next ==
    \/ \E b \in Batches : Call("A", b)
    \/ CallMissingKeys("A")
    \/ Step("A", BOOLEAN, BOOLEAN)
    \/ OpenSession("A")
    \/ Session("A")

Spec == Init /\ [][Next]_vars

\* A loader of the interleaved runs makes one call.
CallOnce(l, b) ==
    /\ loader[l].pc = "idle"
    /\ loader' = [loader EXCEPT ![l] =
                    [IdleLoader EXCEPT !.pc = "connect", !.batch = b, !.pre = warehouse]]
    /\ UNCHANGED <<warehouse, seq, calls, prev, shadow, etl>>

\* Two loaders whose statements interleave freely.  A failing step keeps
\* its connection and the rollback succeeds: the other outcomes end the
\* transaction in the same way as far as the other loader can see.
NextConc ==
    \E l \in Loaders :
        \/ \E b \in ConcBatches : CallOnce(l, b)
        \/ Step(l, {FALSE}, {TRUE})

SpecConc == Init /\ [][NextConc]_vars

\* ------------------------------------------------------------------------
\* Values of a transaction frame (src/src/transform.py)
\* ------------------------------------------------------------------------
\* Tokens of a text: one whitespace character, or a word (a run of letters)
\* in lower, UPPER or Title case.
SP == [w |-> " ", c |-> "space"]

Word(w, c) == [w |-> w, c |-> c]

Lower(w) == <<Word(w, "lower")>>

Upper(w) == <<Word(w, "upper")>>

Title(w) == <<Word(w, "title")>>

RECURSIVE LStrip(_)
LStrip(tokens) ==
    IF tokens # << >> /\ Head(tokens) = SP THEN LStrip(Tail(tokens)) ELSE tokens

RECURSIVE RStrip(_)
RStrip(tokens) ==
    IF tokens # << >> /\ tokens[Len(tokens)] = SP
    THEN RStrip(SubSeq(tokens, 1, Len(tokens) - 1))
    ELSE tokens

\* Variant: at most one whitespace character is removed at each end.
StripOne(tokens) ==
    LET l == IF tokens # << >> /\ Head(tokens) = SP THEN Tail(tokens) ELSE tokens
    IN  IF l # << >> /\ l[Len(l)] = SP THEN SubSeq(l, 1, Len(l) - 1) ELSE l

\* str.strip()
Strip(tokens) == RStrip(LStrip(tokens))

RECURSIVE CollapseSpaces(_)
\* Runs of whitespace inside a stripped text become one space.
CollapseSpaces(tokens) ==
    IF Len(tokens) <= 1 THEN tokens
    ELSE IF tokens[1] = SP /\ tokens[2] = SP THEN CollapseSpaces(Tail(tokens))
    ELSE <<Head(tokens)>> \o CollapseSpaces(Tail(tokens))

\* ' '.join(s.split())
SplitJoin(tokens) == CollapseSpaces(Strip(tokens))

\* str.title(): every word gets an upper-case first letter and lower-case
\* rest; whitespace and digits are kept as they are.
TitleCase(tokens) ==
    [i \in 1..Len(tokens) |->
        IF tokens[i] = SP \/ tokens[i].c = "digits" THEN tokens[i]
        ELSE Word(tokens[i].w, "title")]

\* str(x) of a cell that is not null: a text as it is, a number as its digits.
Str(cell) == IF cell.k = "str" THEN cell.s ELSE <<Word(ToString(cell.n), "digits")>>

\* standardize_category: null as it is, else str(x).strip().title().
standardize_category(cell) ==
    IF IsNull(cell) THEN cell ELSE Text(TitleCase(Strip(Str(cell))))

\* standardize_merchant: strip, collapse inner whitespace, title.
standardize_merchant(cell) ==
    IF IsNull(cell) THEN cell ELSE Text(TitleCase(SplitJoin(Strip(Str(cell)))))

\* standardize_payment_method: null as it is, else str(x).strip().title().
standardize_payment_method(cell) ==
    IF IsNull(cell) THEN cell ELSE Text(TitleCase(Strip(Str(cell))))

\* x.strip() if isinstance(x, str) else x
StripCell(cell) == IF cell.k = "str" THEN Text(Strip(cell.s)) ELSE cell

ALLOWED_CATEGORIES ==
    {Text(Title(w)) : w \in {"groceries", "dining", "transportation", "entertainment",
                              "utilities", "shopping", "healthcare", "travel"}}

ALLOWED_PAYMENT_METHODS ==
    {Text(Title("credit") \o <<SP>> \o Title("card")),
     Text(Title("debit") \o <<SP>> \o Title("card")),
     Text(Title("cash")),
     Text(Title("digital") \o <<SP>> \o Title("wallet"))}

\* datetime(2020, 1, 1), as YYYYMMDDHH.
MIN_VALID_DATE == 2020010100

\* 10000.00, in thousandths.
MAX_AMOUNT == 10000000

\* The instants the clock passes through (YYYYMMDDHH); the first one is the
\* instant src.transform is imported.
Instants == <<2023061709, 2023061815, 2023062008>>

\* MAX_VALID_DATE = datetime.now(), evaluated when the module is imported.
MAX_VALID_DATE == Instants[1]

\* strftime('%Y%m%d').astype(int)
DateKeyOf(stamp) == stamp \div 100

\* round(2) of an amount in thousandths, in cents: to the nearest cent, a
\* half to the even cent.  (A decimal half is not exactly representable in
\* binary floating point; the inputs of the model hold none.)
Round2(mills) ==
    LET q == mills \div 10
        r == mills % 10
    IN  IF r < 5 THEN q
        ELSE IF r > 5 THEN q + 1
        ELSE IF q % 2 = 0 THEN q ELSE q + 1

\* ------------------------------------------------------------------------
\* Ordering of cells (sorted() and sort_values)
\* ------------------------------------------------------------------------
\* The words of the model in alphabetical order, and their first letters.
Vocabulary ==
    <<"acme", "bitcoin", "card", "cash", "corp", "credit", "debit", "digital",
      "dining", "entertainment", "gambling", "groceries", "healthcare",
      "shopping", "t1", "t2", "t3", "t4", "transportation", "travel", "utilities",
      "wallet", "zed">>

Initials ==
    <<"a", "b", "c", "c", "c", "c", "d", "d", "d", "e", "g", "g", "h", "s", "t",
      "t", "t", "t", "t", "t", "u", "w", "z">>

IndexOf(w) == CHOOSE i \in 1..Len(Vocabulary) : Vocabulary[i] = w

\* Position of the first entry of Vocabulary with the same first letter.
InitialRank(w) ==
    CHOOSE i \in 1..Len(Vocabulary) :
        /\ Initials[i] = Initials[IndexOf(w)]
        /\ \A j \in 1..(i - 1) : Initials[j] # Initials[i]

\* Code point order of str: whitespace before letters, upper-case letters
\* before lower-case ones, then letter by letter.
TokenKey(tok) ==
    IF tok = SP THEN <<0, 0, 0, 0>>
    ELSE <<IF tok.c = "lower" THEN 2 ELSE 1,
           InitialRank(tok.w),
           IF tok.c = "title" THEN 1 ELSE 0,
           IndexOf(tok.w)>>

RECURSIVE KeyLess(_, _)
\* Lexicographic order of sequences of integers.
KeyLess(a, b) ==
    IF b = << >> THEN FALSE
    ELSE IF a = << >> THEN TRUE
    ELSE IF Head(a) # Head(b) THEN Head(a) < Head(b)
    ELSE KeyLess(Tail(a), Tail(b))

RECURSIVE TextLess(_, _)
TextLess(a, b) ==
    IF b = << >> THEN FALSE
    ELSE IF a = << >> THEN TRUE
    ELSE IF Head(a) # Head(b) THEN KeyLess(TokenKey(Head(a)), TokenKey(Head(b)))
    ELSE TextLess(Tail(a), Tail(b))

\* x < y for two cells of one column (texts, or numbers / timestamps).
CellLess(a, b) ==
    IF a.k = "str" /\ b.k = "str" THEN TextLess(a.s, b.s) ELSE a.n < b.n

RECURSIVE SortCellsDescending(_)
\* Variant: the cells of a set in descending order.
SortCellsDescending(S) ==
    IF S = {} THEN << >>
    ELSE LET m == CHOOSE x \in S : \A y \in S \ {x} : CellLess(y, x)
         IN  <<m>> \o SortCellsDescending(S \ {m})

RECURSIVE SortCells(_)
\* sorted(values): the cells of a set in ascending order.
SortCells(S) ==
    IF S = {} THEN << >>
    ELSE LET m == CHOOSE x \in S : \A y \in S \ {x} : CellLess(x, y)
         IN  <<m>> \o SortCells(S \ {m})

\* ------------------------------------------------------------------------
\* clean_transaction_data
\* ------------------------------------------------------------------------
RawRecord(row, t, d, c, a, m, p, u) ==
    [row |-> row, transaction_id |-> t, date |-> d, category |-> c, amount |-> a,
     merchant |-> m, payment_method |-> p, user_id |-> u]

\* df.duplicated(subset=['transaction_id']): an earlier row has the same id.
Duplicated(df, i) ==
    \E j \in 1..(i - 1) : df[j].transaction_id = df[i].transaction_id

RECURSIVE KeepRows(_, _, _)
\* The rows of df from position i on that pass `keep`, in their order.
KeepRows(df, keep, i) ==
    IF i > Len(df) THEN << >>
    ELSE IF keep[i] THEN <<df[i]>> \o KeepRows(df, keep, i + 1)
    ELSE KeepRows(df, keep, i + 1)

\* Variant: keep='last'.
DropDuplicatesKeepLast(df) ==
    KeepRows(df, [i \in 1..Len(df) |->
                    ~\E j \in (i + 1)..Len(df) : df[j].transaction_id = df[i].transaction_id], 1)

\* df.drop_duplicates(subset=['transaction_id'], keep='first')
DropDuplicates(df) ==
    KeepRows(df, [i \in 1..Len(df) |-> ~Duplicated(df, i)], 1)

\* The whitespace trimming of the string columns, then the three standardizers.
CleanRecord(rec) ==
    [row |-> rec.row,
     transaction_id |-> StripCell(rec.transaction_id),
     date |-> StripCell(rec.date),
     category |-> standardize_category(StripCell(rec.category)),
     amount |-> StripCell(rec.amount),
     merchant |-> standardize_merchant(StripCell(rec.merchant)),
     payment_method |-> standardize_payment_method(StripCell(rec.payment_method)),
     user_id |-> StripCell(rec.user_id)]

clean_transaction_data(df) ==
    LET kept == DropDuplicates(df)
    IN  [i \in 1..Len(kept) |-> CleanRecord(kept[i])]

\* ------------------------------------------------------------------------
\* validate_transaction_data
\* ------------------------------------------------------------------------
required_fields ==
    <<"transaction_id", "date", "category", "amount", "merchant", "payment_method", "user_id">>

\* pd.to_numeric(errors='coerce'): the number, or NaN.
ToNumeric(cell) == IF cell.k \in {"num", "float"} THEN cell ELSE NullCell

\* pd.to_datetime(errors='coerce'): the timestamp, or NaT; a number counts
\* nanoseconds from 1970-01-01.
ToDatetime(cell) ==
    CASE cell.k = "date" -> cell
      [] cell.k \in {"num", "float"} -> Stamp(1970010100)
      [] OTHER -> NullCell

HasNull(rec) == \E i \in 1..Len(required_fields) : IsNull(rec[required_fields[i]])

\* Variant: an amount of 0 passes.
InvalidAmountAllowsZero(amount) == IsNull(amount) \/ amount.n < 0

\* (df['amount'] <= 0) | (df['amount'].isnull())
InvalidAmount(amount) == IsNull(amount) \/ amount.n <= 0

\* Variant: the largest amount is rejected as well.
TooLargeFromMax(amount) == ~IsNull(amount) /\ amount.n >= MAX_AMOUNT

\* df['amount'] > MAX_AMOUNT
TooLarge(amount) == ~IsNull(amount) /\ amount.n > MAX_AMOUNT

\* df['amount'].round(2); the result is in cents.
RoundAmount(amount) == IF IsNull(amount) THEN amount ELSE Num(Round2(amount.n))

\* valid_dates & (df['date'] < MIN_VALID_DATE)
TooOld(date) == ~IsNull(date) /\ date.n < MIN_VALID_DATE

\* valid_dates & (df['date'] > MAX_VALID_DATE)
InFuture(date) == ~IsNull(date) /\ date.n > MAX_VALID_DATE

\* How the date cells of a frame are written: all without a UTC offset
\* ("naive"), all with the same offset ("aware"), or with different offsets
\* or some with and some without one.  For the last case pd.to_datetime
\* depends on the pandas release: it returns an object column of datetimes
\* ("mixed") or raises ValueError ("mixed_strict").
TzModes == {"naive", "aware", "mixed", "mixed_strict"}

\* pd.to_datetime returned: the column is coerced and NaT rows are marked.
DateParsed(tz) == tz # "mixed_strict"

\* The column that pd.to_datetime leaves behind has the dtype datetime64,
\* so that the .dt accessor works on it.
DatetimeColumn(tz) == tz \in {"naive", "aware"}

\* The date block ends in its except clause: pd.to_datetime raises, or the
\* comparison of timezone-aware values with the naive MIN_VALID_DATE raises
\* TypeError after the format check, with the range checks not made.
DateBlockRaises(df, tz) ==
    \/ ~DateParsed(tz)
    \/ tz # "naive" /\ \E i \in 1..Len(df) : ~IsNull(ToDatetime(df[i].date))

\* astype('Int64') raises TypeError for a float column that holds a value
\* with a fraction; it is attempted unless every user_id is NaN.
UserBlockRaises(df) ==
    \E i \in 1..Len(df) :
        LET u == ToNumeric(df[i].user_id)
        IN  ~IsNull(u) /\ u.n % 10 # 0

\* The user_id column after the block: Int64 when the cast was made, the
\* float column otherwise.
CastUser(df, user) ==
    IF IsNull(user) THEN user
    ELSE IF UserBlockRaises(df) THEN Float(user.n)
    ELSE Num(user.n \div 10)

\* Variant: a category outside the allowed list passes.
CategoryAlwaysAllowed(category) == TRUE

CategoryAllowed(category) == category \in ALLOWED_CATEGORIES

PaymentMethodAllowed(payment_method) == payment_method \in ALLOWED_PAYMENT_METHODS

\* df['is_valid'] of one row after all the blocks.
IsValid(df, tz, rec) ==
    LET amount == ToNumeric(rec.amount)
        date == ToDatetime(rec.date)
    IN  /\ ~HasNull(rec)
        /\ ~InvalidAmount(amount)
        /\ ~TooLarge(amount)
        /\ DateParsed(tz) => ~IsNull(date)
        /\ DateBlockRaises(df, tz) \/ (~TooOld(date) /\ ~InFuture(date))
        /\ CategoryAllowed(rec.category)
        /\ PaymentMethodAllowed(rec.payment_method)
        /\ ~IsNull(ToNumeric(rec.user_id))

\* A row of the frame after the coercions of the three blocks.
Coerced(df, tz, rec) ==
    [rec EXCEPT !.amount = RoundAmount(ToNumeric(rec.amount)),
                !.date = IF DateParsed(tz) THEN ToDatetime(rec.date) ELSE rec.date,
                !.user_id = CastUser(df, ToNumeric(rec.user_id))]

\* The issue a check appends when at least one row fails it.
IssueIf(df, Fails(_), text) ==
    IF \E i \in 1..Len(df) : Fails(df[i]) THEN <<text>> ELSE << >>

RECURSIVE NullIssues(_, _)
NullIssues(df, f) ==
    IF f > Len(required_fields) THEN << >>
    ELSE LET Missing(rec) == IsNull(rec[required_fields[f]])
         IN  IssueIf(df, Missing, "null values in " \o required_fields[f])
             \o NullIssues(df, f + 1)

\* list_of_issues, in the order the checks append them.
Issues(df, tz) ==
    LET BadAmount(rec) == InvalidAmount(ToNumeric(rec.amount))
        BigAmount(rec) == TooLarge(ToNumeric(rec.amount))
        BadDate(rec) == DateParsed(tz) /\ IsNull(ToDatetime(rec.date))
        OldDate(rec) == TooOld(ToDatetime(rec.date))
        FutureDate(rec) == InFuture(ToDatetime(rec.date))
        BadCategory(rec) == ~CategoryAllowed(rec.category)
        BadPayment(rec) == ~PaymentMethodAllowed(rec.payment_method)
        BadUser(rec) == IsNull(ToNumeric(rec.user_id))
    IN  NullIssues(df, 1)
        \o IssueIf(df, BadAmount, "invalid amounts")
        \o IssueIf(df, BigAmount, "amounts > MAX_AMOUNT")
        \o IssueIf(df, BadDate, "invalid date format")
        \o (IF DateBlockRaises(df, tz) THEN <<"Error validating dates">>
            ELSE IssueIf(df, OldDate, "dates before MIN_VALID_DATE")
                 \o IssueIf(df, FutureDate, "future dates"))
        \o IssueIf(df, BadCategory, "invalid categories")
        \o IssueIf(df, BadPayment, "invalid payment methods")
        \o IssueIf(df, BadUser, "invalid user_id")
        \o (IF UserBlockRaises(df) THEN <<"Error validating user_id">> ELSE << >>)

\* validate_transaction_data: (valid_df, issues).
validate_transaction_data(df, tz) ==
    LET coerced == [i \in 1..Len(df) |-> Coerced(df, tz, df[i])]
    IN  [valid_df |-> KeepRows(coerced, [i \in 1..Len(df) |-> IsValid(df, tz, df[i])], 1),
         issues |-> Issues(df, tz)]

\* ------------------------------------------------------------------------
\* create_dimension_data and transform_transactions
\* ------------------------------------------------------------------------
Column(df, field) == {df[i][field] : i \in 1..Len(df)}

\* The components of a timestamp YYYYMMDDHH.
YearOf(stamp) == stamp \div 1000000

MonthOf(stamp) == (stamp \div 10000) % 100

DayOf(stamp) == (stamp \div 100) % 100

IsLeapYear(y) == (y % 4 = 0 /\ y % 100 # 0) \/ y % 400 = 0

\* Days of the year before the first of month m.
DaysBeforeMonth(y, m) ==
    <<0, 31, 59, 90, 120, 151, 181, 212, 243, 273, 304, 334>>[m]
    + (IF m > 2 /\ IsLeapYear(y) THEN 1 ELSE 0)

DayOfYear(y, m, d) == DaysBeforeMonth(y, m) + d

\* dt.isocalendar().day: the weekday of the proleptic Gregorian calendar,
\* Monday = 1 ... Sunday = 7.
IsoDay(y, m, d) ==
    LET t == <<0, 3, 2, 5, 0, 3, 5, 1, 4, 6, 2, 4>>
        yy == IF m < 3 THEN y - 1 ELSE y
        sunday0 == (yy + yy \div 4 - yy \div 100 + yy \div 400 + t[m] + d) % 7
    IN  ((sunday0 + 6) % 7) + 1

\* Variant: the week of the year counted in blocks of seven days from
\* 1 January.
WeekFromNewYear(y, m, d) == (DayOfYear(y, m, d) - 1) \div 7 + 1

\* dt.isocalendar().week: an estimate from the day of the year and the
\* weekday, corrected at both ends of the year.
IsoWeek(y, m, d) ==
    LET dow == IsoDay(y, m, d) - 1
        estimate == (DayOfYear(y, m, d) - 1) - dow + 3
        week == IF estimate >= 0 THEN estimate \div 7 + 1 ELSE estimate
    IN  IF week < 0
        THEN IF week > -2 \/ (week = -2 /\ IsLeapYear(y - 1)) THEN 53 ELSE 52
        ELSE IF week = 53 /\ 31 - d + dow < 3 THEN 1
        ELSE week

\* The row of the date dimension for one timestamp.
DateRow(stamp) ==
    LET y == YearOf(stamp)
        m == MonthOf(stamp)
        d == DayOf(stamp)
        day_of_week == IsoDay(y, m, d)
    IN  [date_key |-> DateKeyOf(stamp), date |-> stamp,
         year |-> y, quarter |-> (m - 1) \div 3 + 1, month |-> m, day |-> d,
         day_of_week |-> day_of_week, week_of_year |-> IsoWeek(y, m, d),
         is_weekend |-> day_of_week \in {6, 7}]

\* derive_date_attributes: one row per distinct timestamp, sorted.
derive_date_attributes(date_series) ==
    LET unique_dates == SortCells(date_series)
    IN  [i \in 1..Len(unique_dates) |-> DateRow(unique_dates[i].n)]

\* The natural keys of the date frame, which is all the loader's tables
\* keep of it.
DateKeys(date_dim) == [i \in 1..Len(date_dim) |-> date_dim[i].date_key]

create_dimension_data(df) ==
    [d \in DimNames |->
        CASE d = "dim_date" -> DateKeys(derive_date_attributes(Column(df, "date")))
          [] d = "dim_category" -> SortCells(Column(df, "category"))
          [] d = "dim_merchant" -> SortCells(Column(df, "merchant"))
          [] d = "dim_payment_method" -> SortCells(Column(df, "payment_method"))
          [] d = "dim_user" -> SortCells(Column(df, "user_id"))]

\* fact_data: the seven columns and date_key.
PrepareFact(rec) ==
    FactRecord(rec.transaction_id, DateKeyOf(rec.date.n), rec.category, rec.merchant,
               rec.payment_method, rec.user_id, rec.amount.n)

\* transform_transactions: what it returns, or the exception it raises.  On a
\* date column that is not datetime64 the .dt accessor of
\* derive_date_attributes raises AttributeError, which the function wraps in
\* a plain Exception.
transform_transactions(df, tz) ==
    IF df = << >>
    THEN [raised |-> "ValueError", data |-> NoBatch, valid |-> 0]
    ELSE LET df_clean == clean_transaction_data(df)
             v == validate_transaction_data(df_clean, tz)
         IN  IF v.valid_df = << >>
             THEN [raised |-> "ValueError", data |-> NoBatch, valid |-> 0]
             ELSE IF ~DatetimeColumn(tz)
             THEN [raised |-> "Exception", data |-> NoBatch, valid |-> 0]
             ELSE [raised |-> "none",
                   data |-> [fact_data |-> [i \in 1..Len(v.valid_df) |-> PrepareFact(v.valid_df[i])],
                             dims |-> create_dimension_data(v.valid_df)],
                   valid |-> Len(v.valid_df)]

\* ------------------------------------------------------------------------
\* Input frames of the transformer
\* ------------------------------------------------------------------------
Id(w) == Text(Lower(w))

\* A record that passes every check, and the cells that replace one of its
\* fields in the records of the pool.
GoodDate == Stamp(2023061608)

GoodRecord ==
    [transaction_id |-> Id("t1"), date |-> GoodDate, category |-> Text(Title("dining")),
     amount |-> Num(12340), merchant |-> Text(Title("acme")),
     payment_method |-> Text(Title("cash")), user_id |-> Num(10)]

With(id, field, cell) == [GoodRecord EXCEPT !.transaction_id = Id(id), ![field] = cell]

\* Candidate raw records (without their row number).  They hold untidy
\* texts, a repeated transaction_id, an id that differs from another one in
\* outer whitespace only, and for each check of the validator the values at
\* and around its boundary.
RawPool ==
    << GoodRecord,
       [transaction_id |-> Id("t2"), date |-> Stamp(2023061620),
        category |-> Text(<<SP>> \o Lower("groceries") \o <<SP>>), amount |-> Num(20506),
        merchant |-> Text(Lower("acme") \o <<SP, SP>> \o Upper("corp")),
        payment_method |-> Text(Lower("credit") \o <<SP>> \o Lower("card")),
        user_id |-> Num(20)],
       [transaction_id |-> Id("t1"), date |-> Stamp(2023061620),
        category |-> Text(Title("travel")), amount |-> Num(5000),
        merchant |-> Text(Title("zed")), payment_method |-> Text(Title("cash")),
        user_id |-> Num(20)],
       With("t1", "transaction_id", Text(<<SP>> \o Lower("t1"))),
       With("t1", "transaction_id", NullCell),
       With("t2", "merchant", NullCell),
       With("t2", "amount", Num(0)),
       With("t1", "amount", Num(MAX_AMOUNT)),
       With("t2", "amount", Num(MAX_AMOUNT + 10)),
       With("t2", "amount", Num(4)),
       With("t1", "amount", Num(-1000)),
       With("t1", "amount", Text(Lower("zed"))),
       With("t2", "date", Stamp(MIN_VALID_DATE)),
       With("t1", "date", Stamp(2019123123)),
       With("t2", "date", Stamp(2023061712)),
       With("t1", "date", Stamp(2023062100)),
       With("t2", "date", Text(Lower("zed"))),
       With("t2", "category", Text(Title("gambling"))),
       With("t1", "payment_method", Text(Title("bitcoin"))),
       With("t2", "user_id", Num(15)),
       With("t1", "user_id", Text(Lower("zed"))),
       With("t2", "user_id", NullCell) >>

\* A raw record of the pool as row number `row` of a frame.
Row(rec, row) ==
    RawRecord(row, rec.transaction_id, rec.date, rec.category, rec.amount, rec.merchant,
              rec.payment_method, rec.user_id)

\* The frames of up to MaxRaw pool records.
RawFrames ==
    LET idx == UNION {[1..n -> 1..Len(RawPool)] : n \in 0..MaxRaw}
    IN  {[i \in 1..Len(s) |-> Row(RawPool[s[i]], i)] : s \in idx}

\* ------------------------------------------------------------------------
\* transform_transactions, step by step
\* ------------------------------------------------------------------------
LoaderSide == <<warehouse, seq, loader, calls, prev, shadow>>

\* Time passes.
Tick ==
    /\ etl.clock < Len(Instants)
    /\ etl' = [etl EXCEPT !.clock = @ + 1]
    /\ UNCHANGED LoaderSide

\* Date cells can differ in their offsets only if the column that reaches
\* pd.to_datetime holds at least two of them.
TzPossible(df, tz) ==
    LET df_clean == clean_transaction_data(df)
    IN  tz \in {"mixed", "mixed_strict"} =>
            Cardinality({i \in 1..Len(df_clean) : df_clean[i].date.k = "date"}) >= 2

\* transform_transactions(df) with a frame that holds rows.
TransformCall(df, tz) ==
    /\ etl.pc = "idle"
    /\ df # << >>
    /\ TzPossible(df, tz)
    /\ etl' = [etl EXCEPT !.pc = "clean", !.raw = df, !.tz = tz]
    /\ UNCHANGED LoaderSide

\* A call of transform_transactions with any of the frames.
CallTransform ==
    /\ etl.pc = "idle"
    /\ \E df \in RawFrames, tz \in TzModes : TransformCall(df, tz)

\* transform_transactions(None) or with an empty frame: ValueError.
TransformCallEmpty(none) ==
    /\ etl.pc = "idle"
    /\ etl' = [etl EXCEPT !.pc = "done", !.raw = << >>, !.none = none, !.exc = "ValueError"]
    /\ UNCHANGED LoaderSide

\* Step 1: df_clean = clean_transaction_data(df)
Clean ==
    /\ etl.pc = "clean"
    /\ etl' = [etl EXCEPT !.pc = "validate", !.df_clean = clean_transaction_data(etl.raw)]
    /\ UNCHANGED LoaderSide

\* Step 2: df_valid, issues = validate_transaction_data(df_clean), and the
\* ValueError when no row is valid.
Validate ==
    /\ etl.pc = "validate"
    /\ LET v == validate_transaction_data(etl.df_clean, etl.tz)
       IN  etl' = [etl EXCEPT !.pc = IF v.valid_df = << >> THEN "done" ELSE "dims",
                              !.started = etl.clock,
                              !.df_valid = v.valid_df,
                              !.issues = v.issues,
                              !.exc = IF v.valid_df = << >> THEN "ValueError" ELSE "none"]
    /\ UNCHANGED LoaderSide

\* Step 3 on a date column that is not datetime64: AttributeError, wrapped
\* in a plain Exception by the except clause of transform_transactions.
CreateDimensionsRaises ==
    /\ etl.pc = "dims"
    /\ ~DatetimeColumn(etl.tz)
    /\ etl' = [etl EXCEPT !.pc = "done", !.exc = "Exception"]
    /\ UNCHANGED LoaderSide

\* Steps 3 and 4: the dimension frames and fact_data; the function returns.
CreateDimensions ==
    /\ etl.pc = "dims"
    /\ DatetimeColumn(etl.tz)
    /\ etl' = [etl EXCEPT !.pc = "done",
                          !.transformed =
                              [fact_data |-> [i \in 1..Len(etl.df_valid) |->
                                                PrepareFact(etl.df_valid[i])],
                               dims |-> create_dimension_data(etl.df_valid)]]
    /\ UNCHANGED LoaderSide

NextTransform ==
    \/ Tick
    \/ CallTransform
    \/ \E none \in BOOLEAN : TransformCallEmpty(none)
    \/ Clean
    \/ Validate
    \/ CreateDimensionsRaises
    \/ CreateDimensions

SpecTransform == Init /\ [][NextTransform]_vars

\* ------------------------------------------------------------------------
\* The standardizers, called on their own
\* ------------------------------------------------------------------------
\* The tokens of the input texts: whitespace, and two words in each case.
StandardizerTokens ==
    {SP} \cup {Word(w, c) : w \in {"digital", "wallet"}, c \in {"lower", "upper", "title"}}

\* The inputs: null, a number, and every text of up to MaxTokens tokens.
StandardizerInputs ==
    {NullCell, Num(7)}
    \cup {Text(s) : s \in UNION {[1..n -> StandardizerTokens] : n \in 0..MaxTokens}}

Standardizers == {"standardize_category", "standardize_merchant", "standardize_payment_method"}

standardize(fn, cell) ==
    CASE fn = "standardize_category" -> standardize_category(cell)
      [] fn = "standardize_merchant" -> standardize_merchant(cell)
      [] fn = "standardize_payment_method" -> standardize_payment_method(cell)

\* fn(x) for one of the standardizers and one input.
StandardizerCall(fn, x) ==
    /\ etl.std.pc = "idle"
    /\ etl' = [etl EXCEPT !.std = [pc |-> "returned", fn |-> fn, arg |-> x,
                                   out |-> standardize(fn, x), again |-> NullCell]]
    /\ UNCHANGED LoaderSide

CallStandardizer ==
    /\ etl.std.pc = "idle"
    /\ \E fn \in Standardizers, x \in StandardizerInputs : StandardizerCall(fn, x)

\* fn(fn(x)): the standardizer is applied to its own result.
StandardizeAgain ==
    /\ etl.std.pc = "returned"
    /\ etl' = [etl EXCEPT !.std.pc = "returned twice",
                          !.std.again = standardize(etl.std.fn, etl.std.out)]
    /\ UNCHANGED LoaderSide

NextStandardize ==
    \/ CallStandardizer
    \/ StandardizeAgain

SpecStandardize == Init /\ [][NextStandardize]_vars

\* ------------------------------------------------------------------------
\* derive_date_attributes, called on its own
\* ------------------------------------------------------------------------
FirstYear == 2019

DaysInMonth(y, m) ==
    IF m = 12 THEN 31 ELSE DaysBeforeMonth(y, m + 1) - DaysBeforeMonth(y, m)

\* Every day of the years FirstYear..LastYear, at midnight.
CalendarDays ==
    UNION {{Stamp((y * 10000 + m * 100 + d) * 100) : d \in 1..DaysInMonth(y, m)} :
              y \in FirstYear..LastYear, m \in 1..12}

\* Timestamps of three consecutive days, two of them on the same day.
DatePool == <<Stamp(2023061608), Stamp(2023061620), Stamp(2023061700), Stamp(2023061500)>>

\* The series handed to derive_date_attributes: one day of the calendar, or
\* up to MaxDates timestamps of the pool in any order, repeated or not.
DateSeries ==
    {<<day>> : day \in CalendarDays}
    \cup {[i \in 1..Len(s) |-> DatePool[s[i]]] :
            s \in UNION {[1..n -> 1..Len(DatePool)] : n \in 0..MaxDates}}

\* derive_date_attributes(date_series); date_series.unique() keeps one of
\* the values that are the same timestamp.
DateCall(date_series) ==
    /\ etl.dates.pc = "idle"
    /\ etl' = [etl EXCEPT !.dates =
                  [pc |-> "returned", arg |-> date_series,
                   out |-> derive_date_attributes(
                              {date_series[i] : i \in 1..Len(date_series)})]]
    /\ UNCHANGED LoaderSide

DeriveDateAttributes ==
    /\ etl.dates.pc = "idle"
    /\ \E date_series \in DateSeries : DateCall(date_series)

NextDates == DeriveDateAttributes

SpecDates == Init /\ [][NextDates]_vars

\* ------------------------------------------------------------------------
\* run_etl_pipeline (src/src/etl_pipeline.py)
\* ------------------------------------------------------------------------
\* A row of a CSV file whose texts are tidy and whose fields are valid.
CleanRow(id, date, category, amount, merchant, payment_method, user_id) ==
    [transaction_id |-> Id(id), date |-> Stamp(date), category |-> Text(Title(category)),
     amount |-> Num(amount), merchant |-> Text(Title(merchant)),
     payment_method |-> Text(payment_method), user_id |-> Num(user_id)]

Cash == Title("cash")

CreditCard == Title("credit") \o <<SP>> \o Title("card")

Frame(rows) == [i \in 1..Len(rows) |-> Row(rows[i], i)]

\* What extract_transactions finds at file_path: an exception, or a frame
\* with at least one row and the way its dates are written.
FileMissing == [raises |-> "FileNotFoundError", df |-> << >>, tz |-> "naive"]

\* Four clean records: 3 categories, 4 merchants, 2 payment methods, 3 users
\* and 4 dates.
FileScenario ==
    [raises |-> "none", tz |-> "naive",
     df |-> Frame(<< CleanRow("t1", 2023061308, "dining", 12340, "acme", Cash, 10),
                     CleanRow("t2", 2023061409, "groceries", 20500, "zed", CreditCard, 20),
                     CleanRow("t3", 2023061510, "travel", 5000, "corp", Cash, 30),
                     CleanRow("t4", 2023061611, "dining", 7000, "wallet", CreditCard, 10) >>)]

\* Two clean records of the same calendar day.
FileSameDay ==
    [raises |-> "none", tz |-> "naive",
     df |-> Frame(<< CleanRow("t1", 2023061608, "dining", 12340, "acme", Cash, 10),
                     CleanRow("t2", 2023061620, "dining", 5000, "acme", Cash, 10) >>)]

\* Untidy texts, a repeated transaction_id and an invalid amount.
FileUntidy ==
    [raises |-> "none", tz |-> "naive",
     df |-> Frame(<< RawPool[1], RawPool[2], RawPool[3], With("t3", "amount", Num(0)) >>)]

\* No row is valid.
FileAllInvalid ==
    [raises |-> "none", tz |-> "naive", df |-> Frame(<< With("t1", "amount", Num(0)) >>)]

\* Two valid rows whose dates differ in their UTC offsets.
FileMixedOffsets ==
    [raises |-> "none", tz |-> "mixed", df |-> FileSameDay.df]

\* Two rows that pass validation, one of them with user_id 1.5.
FileFractionalUser ==
    [raises |-> "none", tz |-> "naive",
     df |-> Frame(<< GoodRecord, With("t2", "user_id", Num(15)) >>)]

Files ==
    <<FileMissing, FileScenario, FileSameDay, FileUntidy, FileAllInvalid, FileMixedOffsets,
      FileFractionalUser>>

PipelineSide == <<warehouse, seq, loader, calls, prev, shadow>>

\* run_etl_pipeline(file_path, dry_run): pipeline_state is initialised.  The
\* pipeline is run once with dry_run and once without, in either order.
RunEtlPipeline(file, dry_run) ==
    /\ etl.phase \in {"none", "returned"}
    /\ dry_run \notin etl.ran
    /\ etl' = [etl EXCEPT
                  !.phase = "extract", !.file = file, !.dry_run = dry_run,
                  !.ran = @ \cup {dry_run},
                  !.raw = << >>, !.tz = Files[file].tz, !.transformed = NoBatch,
                  !.state = InitialPipelineState, !.error = NoError, !.result = NoResult,
                  !.pre = warehouse,
                  !.last = IF etl.phase = "returned"
                           THEN [file |-> etl.file, dry_run |-> etl.dry_run, result |-> etl.result]
                           ELSE NoLast]
    /\ UNCHANGED PipelineSide

\* Phase 1: df_raw = extract_transactions(file_path)
ExtractPhase ==
    /\ etl.phase = "extract"
    /\ Files[etl.file].raises = "none"
    /\ etl' = [etl EXCEPT !.phase = "transform",
                          !.raw = Files[etl.file].df,
                          !.state.extract = Len(Files[etl.file].df)]
    /\ UNCHANGED PipelineSide

\* Phase 1 raises: ExtractError wraps the exception.
ExtractPhaseFails ==
    /\ etl.phase = "extract"
    /\ Files[etl.file].raises # "none"
    /\ etl' = [etl EXCEPT !.phase = "except",
                          !.error = [phase |-> "Extract", cause |-> Files[etl.file].raises]]
    /\ UNCHANGED PipelineSide

\* Variant: the transform count is the number of rows of the user table.
ValidCountOfUsers(transformed_data) == Len(transformed_data.dims["dim_user"])

\* pipeline_state['transform'] = len(transformed_data['fact_data'])
ValidCount(transformed_data) == Len(transformed_data.fact_data)

\* Phase 2: transformed_data = transform_transactions(df_raw)
TransformPhase ==
    /\ etl.phase = "transform"
    /\ LET t == transform_transactions(etl.raw, etl.tz)
       IN  /\ t.raised = "none"
           /\ etl' = [etl EXCEPT !.phase = "load",
                                 !.transformed = t.data,
                                 !.state.transform = ValidCount(t.data)]
    /\ UNCHANGED PipelineSide

\* Phase 2 raises: TransformError wraps the exception.
TransformPhaseFails ==
    /\ etl.phase = "transform"
    /\ LET t == transform_transactions(etl.raw, etl.tz)
       IN  /\ t.raised # "none"
           /\ etl' = [etl EXCEPT !.phase = "except",
                                 !.error = [phase |-> "Transform", cause |-> t.raised]]
    /\ UNCHANGED PipelineSide

\* Variant: a dry run calls the loader as well.
DryRunLoads(dry_run) == FALSE

\* if dry_run: the load is skipped.
DryRunSkipsLoad(dry_run) == dry_run

\* Phase 3 of a dry run: zero counts, load_data_warehouse is not called.
LoadSkipped ==
    /\ etl.phase = "load"
    /\ DryRunSkipsLoad(etl.dry_run)
    /\ etl' = [etl EXCEPT !.phase = "success",
                          !.state.load = 0,
                          !.state.facts_skipped = 0,
                          !.state.dimensions_inserted = [d \in DimNames |-> 0]]
    /\ UNCHANGED PipelineSide

\* Phase 3: load_data_warehouse(transformed_data) is called.
LoadPhaseCall ==
    /\ etl.phase = "load"
    /\ ~DryRunSkipsLoad(etl.dry_run)
    /\ loader["A"].pc \in {"idle", "done"}
    /\ etl' = [etl EXCEPT !.phase = "loading"]
    /\ loader' = [loader EXCEPT !["A"] =
                    [IdleLoader EXCEPT !.pc = "connect", !.batch = etl.transformed,
                                       !.pre = warehouse]]
    /\ UNCHANGED <<warehouse, seq, calls, prev, shadow>>

\* Variant: the load count is taken from the skipped facts.
LoadedFactsCountsSkipped(load_results) == load_results.facts_skipped

\* pipeline_state['load'] = load_results['facts_inserted']
LoadedFacts(load_results) == load_results.facts_inserted

\* Phase 3: load_data_warehouse has returned its statistics.
LoadPhaseReturns ==
    /\ etl.phase = "loading"
    /\ loader["A"].pc = "done"
    /\ loader["A"].result = "ok"
    /\ etl' = [etl EXCEPT !.phase = "success",
                          !.state.load = LoadedFacts(loader["A"].stats),
                          !.state.facts_skipped = loader["A"].stats.facts_skipped,
                          !.state.dimensions_inserted = loader["A"].stats.dimensions_inserted]
    /\ UNCHANGED PipelineSide

\* Phase 3 raises: LoadError wraps the exception.
LoadPhaseFails ==
    /\ etl.phase = "loading"
    /\ loader["A"].pc = "done"
    /\ loader["A"].result # "ok"
    /\ etl' = [etl EXCEPT !.phase = "except",
                          !.error = [phase |-> "Load", cause |-> loader["A"].result]]
    /\ UNCHANGED PipelineSide

\* Variant: the failure result reports zero for every count.
FailureCountsReset(state) == InitialPipelineState

\* The counts of a failure result: pipeline_state as it stands.
FailureCounts(state) == state

\* return {'status': 'success', ...}
ReturnSuccess ==
    /\ etl.phase = "success"
    /\ etl' = [etl EXCEPT !.phase = "returned",
                          !.result = [status |-> "success", error |-> NoError,
                                      counts |-> etl.state]]
    /\ UNCHANGED PipelineSide

\* except (ExtractError, TransformError, LoadError): return {'status': 'failure', ...}
ReturnFailure ==
    /\ etl.phase = "except"
    /\ etl' = [etl EXCEPT !.phase = "returned",
                          !.result = [status |-> "failure", error |-> etl.error,
                                      counts |-> FailureCounts(etl.state)]]
    /\ UNCHANGED PipelineSide

NextPipeline ==
    \/ \E file \in 1..Len(Files), dry_run \in BOOLEAN : RunEtlPipeline(file, dry_run)
    \/ ExtractPhase
    \/ ExtractPhaseFails
    \/ TransformPhase
    \/ TransformPhaseFails
    \/ LoadSkipped
    \/ LoadPhaseCall
    \/ Step("A", BOOLEAN, BOOLEAN)
    \/ LoadPhaseReturns
    \/ LoadPhaseFails
    \/ ReturnSuccess
    \/ ReturnFailure

SpecPipeline == Init /\ [][NextPipeline]_vars

\* ------------------------------------------------------------------------
\* Properties of the Warehouse Loader
\* ------------------------------------------------------------------------
UniqueIds(facts) == Cardinality(TransactionIds(facts)) = Len(facts)

\* The current call returned normally and repeats the batch of the call
\* before it, which also returned normally and started from a warehouse
\* that held none of the batch's transaction_ids.
SecondLoadOfSameBatch(ld) ==
    /\ ld.pc = "done"
    /\ ld.result = "ok"
    /\ prev.ok
    /\ prev.fresh
    /\ prev.batch = ld.batch
    /\ UniqueIds(ld.batch.fact_data)

\* C1 (loader idempotency): loading the same batch of N facts with unique
\* transaction_ids twice in succession, starting without any of its ids,
\* reports N inserted and 0 skipped the first time, 0 inserted and N skipped
\* the second time with every dimension count 0, and the second call leaves
\* the committed warehouse as the first call left it.
C1_LoaderIdempotent ==
    LET ld == loader["A"]
        N == Len(ld.batch.fact_data)
    IN  SecondLoadOfSameBatch(ld) =>
          /\ prev.stats.facts_inserted = N
          /\ prev.stats.facts_skipped = 0
          /\ ld.stats.facts_inserted = 0
          /\ ld.stats.facts_skipped = N
          /\ \A d \in DimNames : ld.stats.dimensions_inserted[d] = 0
          /\ warehouse = ld.pre

C1_Witness ==
    /\ SecondLoadOfSameBatch(loader["A"])
    /\ Len(loader["A"].batch.fact_data) = 2
    /\ Cardinality(warehouse.facts) = 2

\* C2 (loader atomicity): when a load_data_warehouse call that opened a
\* connection ends in a failure, the transaction was not committed, none of
\* its rows remain and the committed tables are what they were before the call.
C2_LoaderAtomic ==
    \A l \in Loaders :
        LET ld == loader[l]
        IN  (ld.pc = "done" /\ ld.result \notin {"ok", "session_ok"} /\ ld.conn # "none") =>
              /\ warehouse = ld.pre
              /\ ld.txn # "committed"
              /\ ld.tx = EmptyTables

\* A call that failed in enrichment after it had inserted merchant rows.
C2_Witness ==
    LET ld == loader["A"]
    IN  /\ ld.pc = "done"
        /\ ld.result = "FactLoadError"
        /\ ld.failed_at = "enrich"
        /\ seq["dim_merchant"] >= 1
        /\ warehouse.dims["dim_merchant"] = {}

\* C3 (guaranteed release): when load_data_warehouse or a database_connection
\* session has returned or raised, no connection it opened is still open.
C3_ConnectionReleased ==
    \A l \in Loaders : loader[l].pc = "done" => loader[l].conn # "open"

\* A call whose commit failed and whose rollback raised as well.
C3_Witness ==
    LET ld == loader["A"]
    IN  /\ ld.pc = "done"
        /\ ld.failed_at = "commit"
        /\ ld.result = "psycopg2.Error"
        /\ ld.conn = "closed"

\* Some record of the loader's fact frame has a natural key that is absent
\* from the mapping fetched for its dimension.
HasUnmappedKey(ld) ==
    \E d \in DimNames : \E i \in 1..Len(ld.batch.fact_data) :
        NaturalKey(ld.batch.fact_data[i], d) \notin DOMAIN ld.mappings[d]

\* C4 (unmapped natural key is a hard failure): enrichment of a frame with
\* an unmapped category, merchant, payment_method, user_id or date_key raises
\* FactLoadError for the whole batch; the load gets past enrichment only with
\* every record enriched, and a call that failed in enrichment inserted no
\* fact row and committed nothing.
C4_UnmappedKeyIsHardFailure ==
    /\ [][\A l \in Loaders :
            (loader[l].pc = "enrich" /\ HasUnmappedKey(loader[l])) =>
                /\ loader'[l].pc = "except"
                /\ loader'[l].exc = "FactLoadError"
                /\ loader'[l].tx.facts = {}
                /\ warehouse' = warehouse]_vars
    /\ [](\A l \in Loaders :
            /\ loader[l].pc \in {"fact_check", "fact_insert", "commit"} =>
                  /\ ~HasUnmappedKey(loader[l])
                  /\ Len(loader[l].enriched) = Len(loader[l].batch.fact_data)
            /\ (loader[l].pc = "done" /\ loader[l].failed_at = "enrich") =>
                  /\ loader[l].result # "ok"
                  /\ warehouse = loader[l].pre)

\* Enrichment has just raised for a frame whose user_id is unmapped.
C4_Witness ==
    LET ld == loader["A"]
    IN  /\ ld.pc = "except"
        /\ ld.failed_at = "enrich"
        /\ ld.exc = "FactLoadError"
        /\ Unmapped(ld.batch.fact_data, ld.mappings, "dim_user") # {}
        /\ ld.tx.dims["dim_category"] # {}

SurrogateKeys(tables, d) == {r.sk : r \in tables.dims[d]}

ReferencesResolve(tables) ==
    \A f \in tables.facts :
        /\ f.date_key \in SurrogateKeys(tables, "dim_date")
        /\ f.category_key \in SurrogateKeys(tables, "dim_category")
        /\ f.merchant_key \in SurrogateKeys(tables, "dim_merchant")
        /\ f.payment_method_key \in SurrogateKeys(tables, "dim_payment_method")
        /\ f.user_key \in SurrogateKeys(tables, "dim_user")

\* C5 (referential integrity): in every committed warehouse state reached by
\* any sequence of successful and failed loads, each of the five keys of
\* every fact row is the key of a row of the corresponding dimension table.
C5_ReferentialIntegrity == ReferencesResolve(warehouse)

\* Two committed facts, and a later call that failed.
C5_Witness ==
    /\ Cardinality(warehouse.facts) = 2
    /\ loader["A"].pc = "done"
    /\ loader["A"].result = "FactLoadError"

\* The records of a frame whose transaction_id a set of tables holds.
Redelivered(facts, tables) ==
    {i \in 1..Len(facts) : facts[i].transaction_id \in FactIds(tables)}

\* C6 (loading is purely additive): no step removes or changes a committed
\* dimension or fact row, so every natural key keeps its surrogate key and no
\* table shrinks; a successful load counts exactly the records whose
\* transaction_id was already stored as skipped and leaves their rows alone.
C6_PurelyAdditive ==
    /\ [][/\ \A d \in DimNames : warehouse.dims[d] \subseteq warehouse'.dims[d]
          /\ warehouse.facts \subseteq warehouse'.facts]_vars
    /\ [](\A l \in Loaders :
            (loader[l].pc = "done" /\ loader[l].result = "ok") =>
               /\ loader[l].stats.facts_skipped =
                     Cardinality(Redelivered(loader[l].batch.fact_data, loader[l].pre))
               /\ \A r \in loader[l].pre.facts : r \in warehouse.facts)

\* Transaction t1 was stored with amount 1000 and has been delivered again
\* with amount 2500 and other dimension values.
C6_Witness ==
    LET ld == loader["A"]
    IN  /\ ld.pc = "done"
        /\ ld.result = "ok"
        /\ \E i \in 1..Len(ld.batch.fact_data) : ld.batch.fact_data[i] = FactPool[3]
        /\ \E r \in ld.pre.facts : r.transaction_id = "t1" /\ r.amount = 1000
        /\ \E r \in warehouse.facts : r.transaction_id = "t1" /\ r.amount = 1000
        /\ ld.stats.facts_skipped >= 1

\* The steps whose failure the loader reports with a declared error.
ClassifiedSteps == {"connect", "load_dims", "mappings", "enrich", "fact_check", "fact_insert"}

\* What a failure of a step surfaces as when the handler re-raises it.
SurfacesAs(p) == IF p = "enrich" THEN "FactLoadError" ELSE Reraised(RaisedAt(p))

\* The error kind that reached the caller is not the kind of a failure of
\* another class, for a given assignment of steps to failure classes.
KindTellsClass(class) ==
    \A l \in Loaders :
        LET ld == loader[l]
        IN  (ld.pc = "done" /\ ld.result \in TypedErrors \ {"ValueError"}) =>
              \A p \in ClassifiedSteps :
                  class[p] # class[ld.failed_at] => SurfacesAs(p) # ld.result

FourClasses ==
    [p \in ClassifiedSteps |->
        CASE p = "connect" -> "connection"
          [] p \in {"load_dims", "mappings"} -> "dimension_load"
          [] p = "enrich" -> "fact_enrichment"
          [] p \in {"fact_check", "fact_insert"} -> "fact_load"]

ThreeClasses ==
    [p \in ClassifiedSteps |->
        CASE p = "connect" -> "connection"
          [] p \in {"load_dims", "mappings"} -> "dimension_load"
          [] p \in {"enrich", "fact_check", "fact_insert"} -> "fact_load"]

C8_TypedFailures ==
    \A l \in Loaders :
        LET ld == loader[l]
        IN  (ld.pc = "done" /\ ld.failed_at \in FaultPoints) =>
              /\ ld.result \in {"DatabaseConnectionError", "DimensionLoadError", "FactLoadError"}
              /\ ld.conn # "open"
              /\ ld.txn \in {"none", "aborted"}

\* A failed commit, rolled back and closed, has reached the caller as a
\* plain Exception.
C8_Witness ==
    LET ld == loader["A"]
    IN  /\ ld.pc = "done"
        /\ ld.failed_at = "commit"
        /\ ld.result = "Exception"
        /\ ld.txn = "aborted"
        /\ ld.conn = "closed"

\* The natural key of the dimension row with a given surrogate key.
NaturalOf(tables, d, sk) == (CHOOSE r \in tables.dims[d] : r.sk = sk).nk

\* The contents of the tables with surrogate keys resolved to natural keys.
Logical(tables) ==
    [dims |-> [d \in DimNames |-> DimKeys(tables, d)],
     facts |-> {[transaction_id |-> f.transaction_id,
                 date_key |-> NaturalOf(tables, "dim_date", f.date_key),
                 category |-> NaturalOf(tables, "dim_category", f.category_key),
                 merchant |-> NaturalOf(tables, "dim_merchant", f.merchant_key),
                 payment_method |-> NaturalOf(tables, "dim_payment_method", f.payment_method_key),
                 user_id |-> NaturalOf(tables, "dim_user", f.user_key),
                 amount |-> f.amount] : f \in tables.facts}]

RECURSIVE MaxOf(_)
MaxOf(S) == IF S = {} THEN 0 ELSE LET x == CHOOSE y \in S : TRUE
                                  m == MaxOf(S \ {x})
                              IN  IF x > m THEN x ELSE m

\* Sequences that have handed out exactly the keys the tables hold.
UnusedSeq(tables) == [d \in SerialDims |-> MaxOf(SurrogateKeys(tables, d))]

\* A call that did not return normally left the committed state as it was.
FailedCallLeftNothing ==
    \A l \in Loaders :
        (loader[l].pc = "done" /\ loader[l].result # "ok") => warehouse = loader[l].pre

\* C9 as claimed (safe re-execution): failed attempts followed by a
\* successful one leave the same committed state as the successful attempts
\* alone, and after each call the committed state is the pre-call state or
\* the fully loaded state.
C9_SameStateAsSingleAttempt ==
    /\ warehouse = shadow.tables
    /\ FailedCallLeftNothing

\* C9 as amended: the same, with the committed states compared up to the
\* values of the warehouse-assigned surrogate keys (the same natural keys in
\* every dimension, the same facts with the same amounts referring to the
\* same natural keys); a failed call leaves exactly the pre-call state.
C9_SameContentsAsSingleAttempt ==
    /\ Logical(warehouse) = Logical(shadow.tables)
    /\ FailedCallLeftNothing
    /\ \A l \in Loaders :
          (loader[l].pc = "done" /\ loader[l].result = "ok") =>
              Logical(warehouse) =
                 Logical(ApplyLoad([tables |-> loader[l].pre, seq |-> UnusedSeq(loader[l].pre)],
                                   loader[l].batch).tables)

\* A load succeeded after a failed attempt had used up key values.
C9_Witness ==
    /\ loader["A"].pc = "done"
    /\ loader["A"].result = "ok"
    /\ warehouse.facts # {}
    /\ warehouse # shadow.tables

UniqueKeys(tables) ==
    /\ \A d \in DimNames : \A r1, r2 \in tables.dims[d] : r1.nk = r2.nk => r1 = r2
    /\ \A f1, f2 \in tables.facts : f1.transaction_id = f2.transaction_id => f1 = f2

ToInsert(ld) == {ld.new_df[i].transaction_id : i \in 1..Len(ld.new_df)}

\* C10 (unique constraints under interleaved loaders): no committed state
\* holds two fact rows with one transaction_id or two dimension rows with
\* one natural key; when both loaders passed the existence check for a
\* transaction_id and both committed, exactly one row with it is stored.
C10_UniqueUnderInterleaving ==
    /\ UniqueKeys(warehouse)
    /\ (\A l \in Loaders : loader[l].pc = "done" /\ loader[l].result = "ok") =>
          \A t \in ToInsert(loader["A"]) \cap ToInsert(loader["B"]) :
              Cardinality({f \in warehouse.facts : f.transaction_id = t}) = 1

\* Both loaders passed the existence check for t1 and both committed.
C10_Witness ==
    /\ \A l \in Loaders : loader[l].pc = "done" /\ loader[l].result = "ok"
    /\ "t1" \in ToInsert(loader["A"]) \cap ToInsert(loader["B"])
    /\ Cardinality({f \in warehouse.facts : f.transaction_id = "t1"}) = 1

\* ------------------------------------------------------------------------
\* Properties of the Transformer
\* ------------------------------------------------------------------------
\* clean_transaction_data has returned in the current call.
Cleaned == etl.pc \in {"validate", "dims", "done"} /\ etl.raw # << >>

\* The rows of the input frame an output frame was made of, in output order.
RowsOf(out) == [i \in 1..Len(out) |-> out[i].row]

\* The first row of the input that holds transaction_id `id`.
FirstOccurrence(df, id) ==
    CHOOSE i \in 1..Len(df) :
        /\ df[i].transaction_id = id
        /\ \A j \in 1..(i - 1) : df[j].transaction_id # id

\* C20 (cleaner deduplication): of the k >= 1 rows of the input that hold one
\* transaction_id, exactly one is in the output of clean_transaction_data, it
\* is the first of them in input order, and the surviving rows keep their
\* relative order.
C20_DeduplicationKeepsFirst ==
    Cleaned =>
        /\ \A i \in 1..Len(etl.raw) :
              LET id == etl.raw[i].transaction_id
                  survivors == {k \in 1..Len(etl.df_clean) :
                                   etl.raw[etl.df_clean[k].row].transaction_id = id}
              IN  /\ Cardinality(survivors) = 1
                  /\ \A k \in survivors : etl.df_clean[k].row = FirstOccurrence(etl.raw, id)
        /\ Increasing(RowsOf(etl.df_clean))

\* A frame of two rows with the same transaction_id and different contents
\* has been cleaned.
C20_Witness ==
    /\ Cleaned
    /\ Len(etl.raw) = 2
    /\ etl.raw[1].transaction_id = etl.raw[2].transaction_id
    /\ etl.raw[1].category # etl.raw[2].category
    /\ Len(etl.df_clean) = 1

\* validate_transaction_data has returned in the current call.
Validated ==
    /\ etl.pc \in {"dims", "done"}
    /\ etl.raw # << >>
    /\ etl.started > 0

\* The instant the validation of the current call started.
ValidationStart == Instants[etl.started]

\* The row of the validator's input that has row number r is in its output.
InValidOutput(r) == \E k \in 1..Len(etl.df_valid) : etl.df_valid[k].row = r

IsNumeric(cell) == cell.k \in {"num", "float"}

\* The six predicates of the validator's contract, for one input record and
\* the instant the validation run started.
AllRequiredPresent(rec) == \A i \in 1..Len(required_fields) : ~IsNull(rec[required_fields[i]])

AmountInRange(rec) == IsNumeric(rec.amount) /\ rec.amount.n > 0 /\ rec.amount.n <= MAX_AMOUNT

DateInRange(rec, now) ==
    rec.date.k = "date" /\ rec.date.n >= MIN_VALID_DATE /\ rec.date.n <= now

UserIdIsInteger(rec) == IsNumeric(rec.user_id) /\ rec.user_id.n % 10 = 0

SixPredicates(rec, now) ==
    /\ AllRequiredPresent(rec)
    /\ AmountInRange(rec)
    /\ DateInRange(rec, now)
    /\ rec.category \in ALLOWED_CATEGORIES
    /\ rec.payment_method \in ALLOWED_PAYMENT_METHODS
    /\ UserIdIsInteger(rec)

\* C14 (validator membership): a record of the validator's input is in its
\* valid output if and only if all six predicates hold for it (required
\* fields present, amount in (0, MAX_AMOUNT], date in [MIN_VALID_DATE, now],
\* category allowed, payment method allowed, user_id an integer).
C14_ValidIffSixPredicates ==
    Validated =>
        \A i \in 1..Len(etl.df_clean) :
            InValidOutput(etl.df_clean[i].row)
                <=> SixPredicates(etl.df_clean[i], ValidationStart)

\* A record whose user_id is 1.5 and whose other fields are valid is in the
\* valid output.
C14_Witness ==
    /\ Validated
    /\ \E i \in 1..Len(etl.df_clean) :
          /\ etl.df_clean[i].user_id = Num(15)
          /\ SixPredicates([etl.df_clean[i] EXCEPT !.user_id = Num(10)], ValidationStart)
          /\ InValidOutput(etl.df_clean[i].row)

\* Every field of the record other than `field` satisfies its predicate.
OtherFieldsValid(rec, field) ==
    SixPredicates([rec EXCEPT ![field] = GoodRecord[field]], ValidationStart)

C16_OutputAmountInRange ==
    Validated =>
        \A k \in 1..Len(etl.df_valid) :
            /\ etl.df_valid[k].amount.k = "num"
            /\ etl.df_valid[k].amount.n > 0
            /\ etl.df_valid[k].amount.n * 10 <= MAX_AMOUNT

\* A record whose input amount is 0.004 is in the valid output.
C16_Witness ==
    /\ Validated
    /\ \E i \in 1..Len(etl.df_clean) :
          /\ etl.df_clean[i].amount = Num(4)
          /\ InValidOutput(etl.df_clean[i].row)
    /\ \E k \in 1..Len(etl.df_valid) : etl.df_valid[k].amount = Num(0)

\* C17 (future-date cutoff): the 'now' that dates are compared with is taken
\* at the start of each validation run, so a record whose date is at or
\* before the instant the run started, and whose other checks pass, is not
\* rejected as a future date, however long the process has been running.
C17_CutoffIsStartOfRun ==
    Validated =>
        \A i \in 1..Len(etl.df_clean) :
            (/\ SixPredicates(etl.df_clean[i], ValidationStart)
             /\ etl.df_clean[i].date.n <= ValidationStart)
                => InValidOutput(etl.df_clean[i].row)

\* A validation run that started after the process had been running for a
\* while has rejected a record dated between the import of the module and
\* the start of the run, and reported future dates.
C17_Witness ==
    /\ Validated
    /\ etl.tz = "naive"
    /\ etl.started > 1
    /\ \E i \in 1..Len(etl.df_clean) :
          /\ SixPredicates(etl.df_clean[i], ValidationStart)
          /\ etl.df_clean[i].date.n > Instants[1]
          /\ ~InValidOutput(etl.df_clean[i].row)
    /\ \E k \in 1..Len(etl.issues) : etl.issues[k] = "future dates"

\* An internal error occurred in the date block or in the user_id block of
\* the current validation run (the block ended in its except clause).
DateCheckIncomplete == DateBlockRaises(etl.df_clean, etl.tz)

UserCheckIncomplete == UserBlockRaises(etl.df_clean)

\* The rows whose check the failed block did not complete: for the date
\* block the rows with a parsed date (their range checks were not made), for
\* the user_id block the rows whose user_id could not be cast to an integer.
DateCheckAffects(rec) == ~IsNull(ToDatetime(rec.date))

UserCheckAffects(rec) == ~IsNull(ToNumeric(rec.user_id)) /\ ToNumeric(rec.user_id).n % 10 # 0

\* C18 (validator fails closed): when an internal error occurs inside one of
\* the coercion blocks, an issue is appended and the affected rows are
\* treated as invalid: no row whose check could not be completed is in the
\* valid output.
C18_FailsClosed ==
    Validated =>
        /\ DateCheckIncomplete =>
              /\ \E k \in 1..Len(etl.issues) : etl.issues[k] = "Error validating dates"
              /\ \A i \in 1..Len(etl.df_clean) :
                    DateCheckAffects(etl.df_clean[i]) => ~InValidOutput(etl.df_clean[i].row)
        /\ UserCheckIncomplete =>
              /\ \E k \in 1..Len(etl.issues) : etl.issues[k] = "Error validating user_id"
              /\ \A i \in 1..Len(etl.df_clean) :
                    UserCheckAffects(etl.df_clean[i]) => ~InValidOutput(etl.df_clean[i].row)

\* The date block of a run over timezone-aware dates ended in its except
\* clause, and a record dated before MIN_VALID_DATE is in the valid output.
C18_Witness ==
    /\ Validated
    /\ DateCheckIncomplete
    /\ \E k \in 1..Len(etl.issues) : etl.issues[k] = "Error validating dates"
    /\ \E k \in 1..Len(etl.df_valid) : etl.df_valid[k].date.n < MIN_VALID_DATE

\* transform_transactions has returned or raised in the current call.
TransformDone == etl.pc = "done"

\* At least one record of the input is in the valid output of the validator.
SomeRecordValid == etl.raw # << >> /\ etl.df_valid # << >>

\* C19 (structural failures only): transform_transactions raises, and then
\* ValueError, exactly when the input is None or empty or no record survives
\* validation; with at least one valid record it returns the fact table and
\* the five dimension tables, however many other records are invalid.
C19_RaisesExactlyOnStructuralCases ==
    TransformDone =>
        /\ etl.exc \in {"none", "ValueError"}
        /\ etl.exc = "ValueError" <=> ~SomeRecordValid
        /\ etl.exc = "none" =>
              /\ Len(etl.transformed.fact_data) = Len(etl.df_valid)
              /\ Len(etl.transformed.fact_data) >= 1
              /\ DOMAIN etl.transformed.dims = DimNames
              /\ \A d \in DimNames : etl.transformed.dims[d] # << >>

\* A call over two records that both survived validation, with dates that
\* differ in their UTC offsets, has raised an exception that is not
\* ValueError.
C19_Witness ==
    /\ TransformDone
    /\ etl.exc = "Exception"
    /\ Len(etl.df_valid) = 2
    /\ etl.tz \in {"mixed", "mixed_strict"}

\* ------------------------------------------------------------------------
\* Properties of the Pipeline
\* ------------------------------------------------------------------------
\* run_etl_pipeline has returned its result.
Returned == etl.phase = "returned"

\* The file of the current run extracts to a batch of clean, valid records
\* with unique transaction_ids: cleaning changes no record, every record
\* satisfies the six predicates of the validator, no id occurs twice.
CleanValidUnique(file) ==
    /\ file.raises = "none"
    /\ \A i \in 1..Len(file.df) :
          /\ CleanRecord(file.df[i]) = file.df[i]
          /\ SixPredicates(file.df[i], Instants[1])
    /\ Cardinality(Column(file.df, "transaction_id")) = Len(file.df)

\* The number of distinct values of the field of dimension d in a batch; for
\* the date field, of distinct calendar dates.
DistinctValues(df, d) ==
    CASE d = "dim_date" -> Cardinality({DateKeyOf(df[i].date.n) : i \in 1..Len(df)})
      [] d = "dim_category" -> Cardinality(Column(df, "category"))
      [] d = "dim_merchant" -> Cardinality(Column(df, "merchant"))
      [] d = "dim_payment_method" -> Cardinality(Column(df, "payment_method"))
      [] d = "dim_user" -> Cardinality(Column(df, "user_id"))

\* C11 (end-to-end counts on an empty warehouse): transforming and loading a
\* batch of N clean, valid records with unique transaction_ids reports for
\* each dimension the number of distinct values of its field, N facts
\* inserted and none skipped, and the tables then hold those row counts.
C11_EndToEndCounts ==
    (/\ Returned
     /\ ~etl.dry_run
     /\ etl.result.status = "success"
     /\ etl.pre = EmptyTables
     /\ CleanValidUnique(Files[etl.file])) =>
        LET df == Files[etl.file].df
            counts == etl.result.counts
        IN  /\ \A d \in DimNames :
                  /\ counts.dimensions_inserted[d] = DistinctValues(df, d)
                  /\ Cardinality(warehouse.dims[d]) = DistinctValues(df, d)
            /\ counts.load = Len(df)
            /\ counts.facts_skipped = 0
            /\ Cardinality(warehouse.facts) = Len(df)

\* The batch of 4 clean records has been loaded into the empty warehouse:
\* 3 categories, 4 merchants, 2 payment methods, 3 users, 4 dates, 4 facts.
C11_Witness ==
    /\ Returned
    /\ ~etl.dry_run
    /\ etl.result.status = "success"
    /\ etl.pre = EmptyTables
    /\ Files[etl.file] = FileScenario
    /\ Cardinality(warehouse.dims["dim_category"]) = 3
    /\ Cardinality(warehouse.dims["dim_merchant"]) = 4
    /\ Cardinality(warehouse.dims["dim_payment_method"]) = 2
    /\ Cardinality(warehouse.dims["dim_user"]) = 3
    /\ Cardinality(warehouse.dims["dim_date"]) = 4
    /\ etl.result.counts.load = 4

\* A dry run is in progress or has returned.
InDryRun == etl.dry_run /\ etl.phase # "none"

\* The loader is not inside a call and holds no connection; the warehouse is
\* as the run found it.
LoaderNotInvoked ==
    /\ loader["A"].pc \in {"idle", "done"}
    /\ loader["A"].conn # "open"
    /\ FALSE \notin etl.ran => loader["A"] = IdleLoader
    /\ warehouse = etl.pre

\* The load counts of a result are zero.
ZeroLoadCounts(result) ==
    /\ result.counts.load = 0
    /\ result.counts.facts_skipped = 0
    /\ \A d \in DOMAIN result.counts.dimensions_inserted :
          result.counts.dimensions_inserted[d] = 0

\* The pipeline has made a dry run and a full run on the same file, and both
\* have returned.
BothRunsOnSameFile == Returned /\ etl.last.file = etl.file

DryResult == IF etl.dry_run THEN etl.result ELSE etl.last.result

FullResult == IF etl.dry_run THEN etl.last.result ELSE etl.result

\* C12 as stated (dry run): a dry run never invokes the loader, its result
\* has zero load counts, and its extract and transform counts and its status
\* are those of a full run on the same input.
C12_DryRunSameAsFullRun ==
    /\ InDryRun => LoaderNotInvoked
    /\ (Returned /\ etl.dry_run) => ZeroLoadCounts(etl.result)
    /\ BothRunsOnSameFile =>
          /\ DryResult.counts.extract = FullResult.counts.extract
          /\ DryResult.counts.transform = FullResult.counts.transform
          /\ DryResult.status = FullResult.status

\* C12 as amended (dry run): a dry run never invokes the loader, its result
\* has zero load counts, and its extract and transform counts are those of
\* a full run on the same input; its status is that of the full run unless
\* the full run failed in its Load phase, and then the dry run reports
\* success.
C12_DryRunSameUnlessLoadFails ==
    /\ InDryRun => LoaderNotInvoked
    /\ (Returned /\ etl.dry_run) => ZeroLoadCounts(etl.result)
    /\ (Returned /\ etl.dry_run /\ etl.result.status = "success") =>
          DOMAIN etl.result.counts.dimensions_inserted = DimNames
    /\ BothRunsOnSameFile =>
          /\ DryResult.counts.extract = FullResult.counts.extract
          /\ DryResult.counts.transform = FullResult.counts.transform
          /\ IF FullResult.error.phase = "Load"
             THEN DryResult.status = "success" /\ FullResult.status = "failure"
             ELSE DryResult.status = FullResult.status /\ DryResult.error = FullResult.error

\* A dry run on the file of 4 clean records has returned success with zero
\* load counts after a full run on the same file had loaded the 4 facts.
C12_Witness ==
    /\ BothRunsOnSameFile
    /\ etl.dry_run
    /\ Files[etl.file] = FileScenario
    /\ etl.result.status = "success"
    /\ etl.result.counts.transform = 4
    /\ etl.last.result.counts.load = 4
    /\ Cardinality(warehouse.facts) = 4

\* What a full run of the current file counts in each phase when the phase
\* completes.
ExtractCount == Len(Files[etl.file].df)

TransformCount == transform_transactions(Files[etl.file].df, Files[etl.file].tz).valid

C21_UniqueAfterCleaning ==
    Cleaned =>
        \A i, j \in 1..Len(etl.df_clean) :
            i # j => etl.df_clean[i].transaction_id # etl.df_clean[j].transaction_id

\* The ids 't1' and ' t1' of a two-row input were both kept by the removal
\* of duplicates and are both 't1' in the output.
C21_Witness ==
    /\ Cleaned
    /\ Len(etl.raw) = 2
    /\ etl.raw[1].transaction_id = Id("t1")
    /\ etl.raw[2].transaction_id = Text(<<SP>> \o Lower("t1"))
    /\ Len(etl.df_clean) = 2
    /\ etl.df_clean[1].transaction_id = Id("t1")
    /\ etl.df_clean[2].transaction_id = Id("t1")

\* A standardizer has returned, and has returned again for its own result.
StandardizedTwice == etl.std.pc = "returned twice"

\* C22 (standardizer idempotence): for each of the three standardizers and
\* every input x that is not null, standardize(standardize(x)) is
\* standardize(x); a null input is returned as it is.
C22_StandardizerIdempotent ==
    /\ StandardizedTwice => etl.std.again = etl.std.out
    /\ (etl.std.pc # "idle" /\ IsNull(etl.std.arg)) => etl.std.out = etl.std.arg
    /\ (etl.std.pc # "idle" /\ ~IsNull(etl.std.arg)) => etl.std.out.k = "str"

\* standardize_merchant has been applied twice to 'DIGITAL  wallet': both
\* results are 'Digital Wallet', which is not the input.
C22_Witness ==
    /\ StandardizedTwice
    /\ etl.std.fn = "standardize_merchant"
    /\ etl.std.arg = Text(Upper("digital") \o <<SP, SP>> \o Lower("wallet"))
    /\ etl.std.out = Text(Title("digital") \o <<SP>> \o Title("wallet"))
    /\ etl.std.again = etl.std.out

\* The normal form of a text: outer whitespace stripped, every inner run of
\* whitespace collapsed to one space, every word in title case.
NormalForm(cell) == Text(TitleCase(CollapseSpaces(Strip(Str(cell)))))

\* C23 (standardizer normal form): for every input that is not null each of
\* the three standardizers returns the value stripped, with every inner run
\* of whitespace collapsed to a single space, and title-cased; 'digital
\* wallet' written with three spaces standardizes to 'Digital Wallet' as a
\* payment method.
C23_StandardizerNormalForm ==
    (etl.std.pc # "idle" /\ ~IsNull(etl.std.arg)) => etl.std.out = NormalForm(etl.std.arg)

\* standardize_payment_method has returned 'Digital   Wallet', with its
\* three spaces, for 'digital   wallet'.
C23_Witness ==
    /\ etl.std.pc = "returned"
    /\ etl.std.fn = "standardize_payment_method"
    /\ etl.std.arg = Text(Lower("digital") \o <<SP, SP, SP>> \o Lower("wallet"))
    /\ etl.std.out = Text(Title("digital") \o <<SP, SP, SP>> \o Title("wallet"))
    /\ etl.std.out \notin ALLOWED_PAYMENT_METHODS

\* ------------------------------------------------------------------------
\* Properties of the Date Dimension and the Dimension Tables
\* ------------------------------------------------------------------------
\* derive_date_attributes has returned for a series of timestamps.
DatesDerived == etl.dates.pc = "returned"

\* The calendar dates (YYYYMMDD) of a series of timestamps.
CalendarDates(date_series) ==
    {DateKeyOf(date_series[i].n) : i \in 1..Len(date_series)}

\* C24 (date dimension cardinality): derive_date_attributes returns exactly
\* one row per distinct calendar date of its input, in ascending order of
\* date, so that no two rows have the same date_key, also when dates are
\* repeated and when several values fall on the same calendar day.
C24_OneRowPerCalendarDate ==
    DatesDerived =>
        /\ Len(etl.dates.out) = Cardinality(CalendarDates(etl.dates.arg))
        /\ {etl.dates.out[i].date_key : i \in 1..Len(etl.dates.out)}
              = CalendarDates(etl.dates.arg)
        /\ Increasing(DateKeys(etl.dates.out))

\* For 08:00 and 20:00 of 2023-06-16 the function has returned two rows,
\* both with date_key 20230616.
C24_Witness ==
    /\ DatesDerived
    /\ etl.dates.arg = <<Stamp(2023061608), Stamp(2023061620)>>
    /\ DateKeys(etl.dates.out) = <<20230616, 20230616>>

\* The number of the day (y, m, d), counted from 1 January of year 1.
DayNumber(y, m, d) ==
    365 * (y - 1) + (y - 1) \div 4 - (y - 1) \div 100 + (y - 1) \div 400
    + DayOfYear(y, m, d)

\* ISO 8601 day of the week, counted from a known Saturday (2023-06-17).
Iso8601Weekday(y, m, d) ==
    ((DayNumber(y, m, d) - DayNumber(2023, 6, 17) + 7 * 1000 + 5) % 7) + 1

\* ISO 8601 week number: the number of the week, among the weeks of the year
\* that holds its Thursday, that the day belongs to.
Iso8601Week(y, m, d) ==
    LET thursday == DayNumber(y, m, d) - Iso8601Weekday(y, m, d) + 4
        week_year == IF thursday < DayNumber(y, 1, 1) THEN y - 1
                     ELSE IF thursday >= DayNumber(y + 1, 1, 1) THEN y + 1
                     ELSE y
    IN  (thursday - DayNumber(week_year, 1, 1)) \div 7 + 1

\* The row of a date has the attributes of the date dimension's contract.
DateAttributesHold(row) ==
    LET y == row.date \div 1000000
        m == (row.date \div 10000) % 100
        d == (row.date \div 100) % 100
    IN  /\ row.date_key = y * 10000 + m * 100 + d
        /\ row.quarter \in 1..4
        /\ 3 * (row.quarter - 1) < m /\ m <= 3 * row.quarter
        /\ row.day_of_week = Iso8601Weekday(y, m, d)
        /\ row.week_of_year = Iso8601Week(y, m, d)
        /\ row.is_weekend <=> row.day_of_week \in {6, 7}

\* C25 (date attribute derivation): for every date of the calendar range
\* (year and quarter boundaries and leap days included) the row produced by
\* derive_date_attributes has date_key = year*10000 + month*100 + day,
\* quarter = ceil(month/3), day_of_week in ISO numbering (Monday = 1 ...
\* Sunday = 7), week_of_year = the ISO 8601 week number, and is_weekend
\* exactly when day_of_week is 6 or 7; 2023-06-17 gives date_key 20230617,
\* quarter 2, day_of_week 6, week_of_year 24, is_weekend true.
C25_DateAttributes ==
    DatesDerived =>
        /\ \A i \in 1..Len(etl.dates.out) : DateAttributesHold(etl.dates.out[i])
        /\ \A i \in 1..Len(etl.dates.out) :
              etl.dates.out[i].date_key = 20230617 =>
                  /\ etl.dates.out[i].quarter = 2
                  /\ etl.dates.out[i].day_of_week = 6
                  /\ etl.dates.out[i].week_of_year = 24
                  /\ etl.dates.out[i].is_weekend

\* The row of Friday 2021-01-01, in week 53 of the year before, has been
\* produced.
C25_Witness ==
    /\ DatesDerived
    /\ etl.dates.arg = <<Stamp(2021010100)>>
    /\ Len(etl.dates.out) = 1
    /\ etl.dates.out[1].date_key = 20210101
    /\ etl.dates.out[1].quarter = 1
    /\ etl.dates.out[1].day_of_week = 5
    /\ etl.dates.out[1].week_of_year = 53
    /\ ~etl.dates.out[1].is_weekend

\* transform_transactions has returned its tables in the current run.
TablesReturned == etl.transformed # NoBatch

\* The valid records of the current run: the input, cleaned and validated.
ValidRecords ==
    validate_transaction_data(clean_transaction_data(etl.raw), etl.tz).valid_df

\* The distinct values of the field of dimension d in a frame of records.
FieldValues(df, d) == {NaturalKey(df[i], d) : i \in 1..Len(df)}

\* C26 (dimension extraction): each of the category, merchant,
\* payment_method and user tables returned by create_dimension_data holds
\* every distinct value of its field in the valid records exactly once, in
\* ascending order of the natural key (lexicographic for names, numeric for
\* user_id); the tables come from the records alone, whatever the warehouse
\* holds, and the warehouse is not touched.
C26_DimensionExtraction ==
    /\ TablesReturned =>
          \A d \in SerialDims :
              LET table == etl.transformed.dims[d]
              IN  /\ {table[i] : i \in 1..Len(table)} = FieldValues(ValidRecords, d)
                  /\ Len(table) = Cardinality(FieldValues(ValidRecords, d))
                  /\ \A i, j \in 1..Len(table) : i < j => CellLess(table[i], table[j])
    /\ etl.phase \in {"transform", "load"} => warehouse = etl.pre

\* The second run works on the file of 4 records while the warehouse holds
\* all their values from the first run: the merchant table lists the four
\* merchants in alphabetical order, which is not their order in the file,
\* and the user table the three users.
C26_Witness ==
    /\ TablesReturned
    /\ Files[etl.file] = FileScenario
    /\ Cardinality(warehouse.dims["dim_merchant"]) = 4
    /\ etl.pre = warehouse
    /\ etl.transformed.dims["dim_merchant"] =
          <<Text(Title("acme")), Text(Title("corp")), Text(Title("wallet")), Text(Title("zed"))>>
    /\ etl.transformed.dims["dim_user"] = <<Num(1), Num(2), Num(3)>>
    /\ Len(etl.transformed.dims["dim_category"]) = 3

\* ------------------------------------------------------------------------
\* Properties of the Loader's Protocol and of the Orchestrator's Phases
\* ------------------------------------------------------------------------
\* The steps of the load protocol in their documented order, followed by the
\* rollback, the close and the return.
ProtocolOrder ==
    <<"connect", "autocommit", "load_dims", "mappings", "enrich", "fact_check",
      "fact_insert", "commit", "except", "finally", "done">>

\* The documented order of the dimension inserts.
DocumentedDimOrder ==
    <<"dim_date", "dim_category", "dim_merchant", "dim_payment_method", "dim_user">>

PositionIn(order, x) == CHOOSE i \in 1..Len(order) : order[i] = x

\* How far a call has got: the step, and inside a step the table and the
\* statement.
Progress(ld) == <<PositionIn(ProtocolOrder, ld.pc), ld.dim, ld.idx>>

\* The loader is inside a call of load_data_warehouse.
InLoadCall(ld) ==
    ld.pc \in {ProtocolOrder[i] : i \in 1..Len(ProtocolOrder)} \ {"done"}

\* The tables that come after table d in the documented order.
LaterDims(d) ==
    {e \in DimNames : PositionIn(DocumentedDimOrder, e) > PositionIn(DocumentedDimOrder, d)}

\* No key mapping has been fetched yet.
NoMappingFetched(ld) == \A d \in DimNames : ld.mappings[d] = << >>

\* One step of a call keeps to the order: it moves the call forward, so that
\* no step is taken twice; a dimension row is inserted only while no row of
\* a later table, no mapping and no fact is there yet; a fact row is
\* inserted only after enrichment and the existence check; the commit is the
\* step after the fact load.
StepInOrder(l) ==
    LET ld == loader[l]
        next == loader'[l]
    IN  (InLoadCall(ld) /\ next # ld) =>
           /\ KeyLess(Progress(ld), Progress(next))
           /\ \A d \in DimNames :
                 (next.tx.dims[d] # ld.tx.dims[d] /\ next.tx.dims[d] # {}) =>
                    /\ ld.pc = "load_dims"
                    /\ \A e \in LaterDims(d) : ld.tx.dims[e] = {}
                    /\ NoMappingFetched(ld)
                    /\ ld.tx.facts = {}
           /\ (next.mappings # ld.mappings /\ ~NoMappingFetched(next)) =>
                 ld.pc = "mappings" /\ ld.enriched = << >> /\ ld.tx.facts = {}
           /\ (next.tx.facts # ld.tx.facts /\ next.tx.facts # {}) =>
                 /\ ld.pc = "fact_insert"
                 /\ Len(ld.enriched) = Len(ld.batch.fact_data)
                 /\ ld.new_df # << >>
           /\ (next.txn = "committed" /\ ld.txn # "committed") =>
                 (ld.pc = "commit" /\ ld.exc = "none" /\ ld.failed_at = "none")
           /\ ld.exc # "none" => (next.pc \in {"finally", "done"} /\ next.tx.facts \subseteq ld.tx.facts
                                   /\ \A d \in DimNames : next.tx.dims[d] \subseteq ld.tx.dims[d])

\* C27 (loader step order): in every execution of load_data_warehouse each
\* step runs at most once and in the order: open the connection with
\* autocommit disabled; insert the dimensions in the order date, category,
\* merchant, payment_method, user; fetch the five key mappings, which hold
\* the rows inserted earlier in the transaction; enrich; existence check;
\* fact insert; commit.  The commit happens only if every earlier step
\* succeeded, and after a failed step only rollback and close run.
C27_LoaderStepOrder ==
    /\ [][\A l \in Loaders : StepInOrder(l)]_vars
    /\ [](\A l \in Loaders :
            LET ld == loader[l]
            IN  /\ ld.pc \in {"load_dims", "mappings", "enrich", "fact_check",
                              "fact_insert", "commit"} =>
                      ld.conn = "open" /\ ld.txn = "active" /\ ld.exc = "none"
                /\ ld.pc \in {"enrich", "fact_check", "fact_insert", "commit"} =>
                      \A d \in DimNames : DimKeys(ld.tx, d) \subseteq DOMAIN ld.mappings[d]
                /\ ld.txn = "committed" => (ld.failed_at = "none" /\ ld.exc = "none")
                /\ (ld.failed_at # "none" /\ ld.pc \notin {"cm_except", "cm_finally"}) =>
                      ld.pc \in {"except", "finally", "done"})

\* A call is about to commit: it has inserted rows into all five dimension
\* tables and two facts, with the mappings fetched in between.
C27_Witness ==
    LET ld == loader["A"]
    IN  /\ ld.pc = "commit"
        /\ \A d \in DimNames : ld.tx.dims[d] # {} /\ ld.mappings[d] # << >>
        /\ Cardinality(ld.tx.facts) = 2

\* The phases a phase of run_etl_pipeline can be followed by.
FollowingPhases(phase) ==
    CASE phase = "extract" -> {"transform", "except"}
      [] phase = "transform" -> {"load", "except"}
      [] phase = "load" -> {"loading", "success"}
      [] phase = "loading" -> {"success", "except"}
      [] phase = "success" -> {"returned"}
      [] phase = "except" -> {"returned"}
      [] OTHER -> {"extract"}

\* One step of a run keeps to the order of the phases: Transform starts only
\* when Extract has returned its frame, Load only when Transform has returned
\* its tables, and the loader and the warehouse change only during a Load
\* phase that follows both.
PhaseInOrder ==
    /\ etl'.phase # etl.phase =>
          /\ etl'.phase \in FollowingPhases(etl.phase)
          /\ etl'.phase = "transform" =>
                /\ Files[etl.file].raises = "none"
                /\ etl'.raw = Files[etl.file].df
                /\ etl'.state.extract = Len(etl'.raw)
                /\ etl'.error = NoError
          /\ etl'.phase = "load" =>
                /\ etl'.transformed # NoBatch
                /\ etl'.state.transform = Len(ValidRecords)
                /\ etl'.state.transform >= 1
                /\ etl'.error = NoError
          /\ etl'.phase = "loading" =>
                /\ loader'["A"].pc = "connect"
                /\ loader'["A"].batch = etl.transformed
                /\ etl.state.transform = Len(loader'["A"].batch.fact_data)
    /\ (loader' # loader \/ warehouse' # warehouse \/ seq' # seq) =>
          /\ etl.phase \in {"load", "loading"}
          /\ ~etl.dry_run
          /\ etl.error = NoError
          /\ etl.transformed # NoBatch

\* C28 (orchestrator phase gating): in every run of run_etl_pipeline the
\* phases start in the order Extract, Transform, Load, each only after the
\* phase before it has completed successfully; the loader is never invoked
\* and the warehouse never written when Extract or Transform failed; the
\* reported transform count is the number of valid records handed to the
\* loader.
C28_PhaseGating ==
    /\ [][PhaseInOrder]_vars
    /\ [](/\ etl.error.phase \in {"Extract", "Transform"} =>
                /\ warehouse = etl.pre
                /\ etl.transformed = NoBatch
                /\ etl.state.transform = 0
          /\ etl.phase = "loading" =>
                /\ loader["A"].batch = etl.transformed
                /\ etl.state.transform = Len(loader["A"].batch.fact_data)
          /\ (Returned /\ ~etl.dry_run /\ etl.result.error.phase \notin {"Extract", "Transform"}) =>
                /\ etl.result.counts.transform = Len(loader["A"].batch.fact_data)
                /\ etl.result.counts.transform = Len(ValidRecords))

\* A full run on the untidy file of 4 rows has returned: 4 extracted, the 2
\* valid records counted and handed to the loader, which has inserted them.
C28_Witness ==
    /\ Returned
    /\ ~etl.dry_run
    /\ Files[etl.file] = FileUntidy
    /\ etl.result.status = "success"
    /\ etl.result.counts.extract = 4
    /\ etl.result.counts.transform = 2
    /\ Len(loader["A"].batch.fact_data) = 2
    /\ etl.result.counts.load = 2

\* ------------------------------------------------------------------------
\* Properties of the Hand-over from the Transformer to the Loader
\* ------------------------------------------------------------------------
\* Every natural key a fact record refers to is a row of the dimension frame
\* returned with it.
SupersetOfReferencedKeys(transformed_data) ==
    \A i \in 1..Len(transformed_data.fact_data), d \in DimNames :
        \E k \in 1..Len(transformed_data.dims[d]) :
            transformed_data.dims[d][k] = NaturalKey(transformed_data.fact_data[i], d)

\* load_data_warehouse is working on the output of transform_transactions as
\* it was returned; the pipeline's loader is the only writer.
LoadingTransformOutput ==
    /\ etl.phase = "loading"
    /\ loader["A"].batch = etl.transformed

\* C29: in every output of transform_transactions each fact record's
\* category, merchant, payment_method, user_id and date_key is a natural key
\* of the dimension frame returned with it, and a load of that output, with
\* no other writer, does not fail in enrich_fact_with_keys.
C29_DimensionsCoverFacts ==
    /\ TablesReturned => SupersetOfReferencedKeys(etl.transformed)
    /\ LoadingTransformOutput => loader["A"].failed_at # "enrich"

\* The output for a file with user_ids 1 and 1.5 covers its facts with the
\* user frame <<1.0, 1.5>>; dim_user stores 1 and 2, and enrichment raises
\* FactLoadError for the record of user 1.5.
C29_Witness ==
    /\ LoadingTransformOutput
    /\ Files[etl.file] = FileFractionalUser
    /\ SupersetOfReferencedKeys(etl.transformed)
    /\ etl.transformed.dims["dim_user"] = <<Float(10), Float(15)>>
    /\ DimKeys(loader["A"].tx, "dim_user") = {Num(1), Num(2)}
    /\ loader["A"].failed_at = "enrich"
    /\ loader["A"].exc = "FactLoadError"

\* ------------------------------------------------------------------------
\* Properties of the Load Statistics
\* ------------------------------------------------------------------------
\* load_data_warehouse has returned its statistics; the loader is the only
\* writer of the warehouse.
LoadReturned(ld) == ld.pc = "done" /\ ld.result = "ok"

\* The records passed in whose transaction_id the fact table held before the
\* call.
ExistedBefore(ld) ==
    {i \in 1..Len(ld.batch.fact_data) :
        ld.batch.fact_data[i].transaction_id \in FactIds(ld.pre)}

\* The number of rows the fact table grew by during the call.
FactGrowth(ld) == Cardinality(warehouse.facts) - Cardinality(ld.pre.facts)

SkippedAreTheExisting(ld) == ld.stats.facts_skipped = Cardinality(ExistedBefore(ld))

InsertedIsTheGrowth(ld) == ld.stats.facts_inserted = FactGrowth(ld)

InsertedPlusSkippedIsPassed(ld) ==
    ld.stats.facts_inserted + ld.stats.facts_skipped = Len(ld.batch.fact_data)

\* C30: after every successful load, facts_inserted + facts_skipped is the
\* number of fact records passed in, facts_skipped is the number of passed
\* records whose transaction_id existed before the call, and facts_inserted
\* is the number of rows the fact table grew by.
C30_StatisticsConserved ==
    LoadReturned(loader["A"]) =>
        /\ InsertedPlusSkippedIsPassed(loader["A"])
        /\ SkippedAreTheExisting(loader["A"])
        /\ InsertedIsTheGrowth(loader["A"])

\* A load of two records that share transaction_id t1 into a fact table
\* without t1 has returned: one row was inserted, none was counted as
\* skipped, and two records were passed in.
C30_Witness ==
    LET ld == loader["A"]
    IN  /\ LoadReturned(ld)
        /\ Len(ld.batch.fact_data) = 2
        /\ TransactionIds(ld.batch.fact_data) = {"t1"}
        /\ "t1" \notin FactIds(ld.pre)
        /\ ld.stats.facts_inserted = 1
        /\ ld.stats.facts_skipped = 0
        /\ SkippedAreTheExisting(ld)
        /\ InsertedIsTheGrowth(ld)

====
